---------------------------- MODULE Spec2Model ----------------------------
(***************************************************************************)
(* A model of quark-engine's Rizin-backed extraction layer                 *)
(* (quark/core/rzapkinfo.py), of MethodObject                              *)
(* (quark/core/struct/methodobject.py) and of the helpers it uses from     *)
(* quark/utils/tools.py.                                                   *)
(*                                                                         *)
(* Python strings are modelled by TLA+ strings: Len, SubSeq and \o act on  *)
(* them character by character.  Positions are 1-based; a search that      *)
(* finds nothing yields 0 (Python: -1, or ValueError for str.index).       *)
(***************************************************************************)
EXTENDS Integers, Sequences, FiniteSets, TLC

VARIABLES
    input,        \* argument handed to the function under analysis
    output,       \* what the function returned (or raised)
    phase,        \* "idle" | "called" | "returned"
    method_set,   \* a Python set of MethodObject values
    rz_cache,                  \* lru_cache of _get_rz: the Dex indices with an open session
    methods_classified_cache,  \* lru_cache of _get_methods_classified: Dex index -> table
    all_methods_cache,         \* cached_property all_methods
    upperfunc_cache,           \* lru_cache of upperfunc
    lowerfunc_cache,           \* lru_cache of lowerfunc
    lru_order,                 \* per lru_cache: its keys, least recently used first
    open_calls,                \* the Dex indices that rzpipe.open was called for, in call order
    generator,                 \* the generator that get_method_bytecode returned last
    other_calls,               \* how many calls the other objects made, burst by burst
    superclass_relationships_cache,  \* cached_property superclass_relationships
    subclass_relationships_cache,    \* cached_property subclass_relationships
    built_tables,              \* Dex index -> the table as its build returned it
    commands,                  \* backend commands the last operation issued
    calls,                     \* number of facade operations so far
    pc,                        \* caller -> where it is in a memoized call
    local,                     \* caller -> the result object it computed
    lru,                       \* the lru_cache entry of the requested key
    objects,                   \* number of result objects created so far
    messageHistory,            \* AgentState: the chat history with the LLM
    messages,                  \* generateSuggestion: its local list of messages
    suggestions                \* AgentState: the steps the LLM suggested last

pureVars == <<input, output, phase>>
setVars == <<method_set>>
raceVars == <<pc, local, lru, objects>>
agentVars == <<messageHistory, messages, suggestions>>
facadeVars ==
    <<rz_cache, methods_classified_cache, all_methods_cache, upperfunc_cache,
      lowerfunc_cache, lru_order, open_calls, generator, other_calls,
      superclass_relationships_cache,
      subclass_relationships_cache, built_tables, commands, calls, raceVars, agentVars>>
vars == <<input, output, phase, method_set, facadeVars>>

\* An Optional value: None is the empty tuple, a present value v is <<v>>.
None == <<>>

Some(v) == <<v>>

\* The outcome of a call: a returned value, or the exception it raised.
Ret(v) == [ret |-> v]

Raised(exc) == [raised |-> exc]

IsRaised(v) == "raised" \in DOMAIN v

\* no call has returned yet
Pending == [pending |-> TRUE]

\* the four lru_caches of RizinImp with no key stored
NoKeys == [_get_rz |-> <<>>, _get_methods_classified |-> <<>>,
           upperfunc |-> <<>>, lowerfunc |-> <<>>]

\* a facade that has just been constructed: nothing opened, nothing cached
NewFacade ==
    /\ rz_cache = {}
    /\ methods_classified_cache = <<>>
    /\ all_methods_cache = None
    /\ upperfunc_cache = <<>>
    /\ lowerfunc_cache = <<>>
    /\ lru_order = NoKeys
    /\ open_calls = <<>>
    /\ generator = None
    /\ other_calls = <<>>
    /\ superclass_relationships_cache = None
    /\ subclass_relationships_cache = None
    /\ built_tables = <<>>
    /\ commands = <<>>
    /\ calls = 0
    /\ pc = <<>>
    /\ local = <<>>
    /\ lru = None
    /\ objects = 0
    /\ messageHistory = <<>>
    /\ messages = <<>>
    /\ suggestions = [set |-> {}]

---------------------------------------------------------------------------
(* Python str primitives                                                   *)

At(s, i) == SubSeq(s, i, i)

StartsWith(s, p) == Len(p) <= Len(s) /\ SubSeq(s, 1, Len(p)) = p

EndsWith(s, p) == Len(p) <= Len(s) /\ SubSeq(s, Len(s) - Len(p) + 1, Len(s)) = p

OccursAt(s, p, i) == i >= 1 /\ i + Len(p) - 1 <= Len(s) /\ SubSeq(s, i, i + Len(p) - 1) = p

Occurrences(s, p) == {i \in 1..(Len(s) + 1) : OccursAt(s, p, i)}

SetMin(S) == CHOOSE m \in S : \A k \in S : m <= k

SetMax(S) == CHOOSE m \in S : \A k \in S : m >= k

\* p in s
Contains(s, p) == Occurrences(s, p) # {}

\* s.index(p) / s.find(p), 1-based, 0 when p does not occur
Find(s, p) == IF Occurrences(s, p) = {} THEN 0 ELSE SetMin(Occurrences(s, p))

\* s.rfind(p) / s.rindex(p), 1-based, 0 when p does not occur
RFind(s, p) == IF Occurrences(s, p) = {} THEN 0 ELSE SetMax(Occurrences(s, p))

\* s.replace(c, r) for a one-character c
RECURSIVE Replace(_, _, _)
Replace(s, c, r) ==
    IF s = "" THEN ""
    ELSE (IF At(s, 1) = c THEN r ELSE At(s, 1)) \o Replace(SubSeq(s, 2, Len(s)), c, r)

\* sep.join(parts)
RECURSIVE Join(_, _)
Join(sep, parts) ==
    IF parts = <<>> THEN ""
    ELSE IF Len(parts) = 1 THEN parts[1]
    ELSE parts[1] \o sep \o Join(sep, Tail(parts))

\* s.split(sep) for a non-empty separator
RECURSIVE Split(_, _)
Split(s, sep) ==
    IF Find(s, sep) = 0 THEN <<s>>
    ELSE <<SubSeq(s, 1, Find(s, sep) - 1)>>
         \o Split(SubSeq(s, Find(s, sep) + Len(sep), Len(s)), sep)

\* the characters that str.strip, str.split and int take for white space:
\* blank, tab, line feed, carriage return, form feed, and as characters of
\* their own U+000B, U+001C to U+001F, U+0085 and U+00A0; the white space
\* beyond U+00FF cannot be written in a string of a module
Whitespace ==
    {" ", "\t", "\n", "\r", "\f",
     "", "", "", "", "", "", " "}

RECURSIVE LStrip(_)
LStrip(s) == IF s # "" /\ At(s, 1) \in Whitespace THEN LStrip(SubSeq(s, 2, Len(s))) ELSE s

RECURSIVE RStrip(_)
RStrip(s) == IF s # "" /\ At(s, Len(s)) \in Whitespace THEN RStrip(SubSeq(s, 1, Len(s) - 1)) ELSE s

\* s.strip()
Strip(s) == LStrip(RStrip(s))

Lower == {"a","b","c","d","e","f","g","h","i","j","k","l","m",
          "n","o","p","q","r","s","t","u","v","w","x","y","z"}

Upper == {"A","B","C","D","E","F","G","H","I","J","K","L","M",
          "N","O","P","Q","R","S","T","U","V","W","X","Y","Z"}

\* the regex class [A-Za-z]
Letter == Lower \cup Upper

DigitValue == ("0" :> 0) @@ ("1" :> 1) @@ ("2" :> 2) @@ ("3" :> 3) @@ ("4" :> 4)
              @@ ("5" :> 5) @@ ("6" :> 6) @@ ("7" :> 7) @@ ("8" :> 8) @@ ("9" :> 9)

\* the regex class [0-9]
Digit == DOMAIN DigitValue

---------------------------------------------------------------------------
(* Type Signature Converter                                                *)

PRIMITIVE_TYPE_MAPPING ==
    ("void" :> "V") @@ ("boolean" :> "Z") @@ ("byte" :> "B") @@ ("char" :> "C")
    @@ ("short" :> "S") @@ ("int" :> "I") @@ ("long" :> "J") @@ ("float" :> "F")
    @@ ("double" :> "D")

\* mutant: the '_' -> '$' replacement of inner-class names is left out
RECURSIVE convert_no_dollar(_)
convert_no_dollar(raw_type) ==
    IF raw_type = "" THEN raw_type
    ELSE IF EndsWith(raw_type, "[]")
        THEN "[" \o convert_no_dollar(SubSeq(raw_type, 1, Len(raw_type) - 2))
    ELSE IF StartsWith(raw_type, "[")
        THEN "[" \o convert_no_dollar(SubSeq(raw_type, 2, Len(raw_type)))
    ELSE IF Contains(raw_type, "...")
        THEN "[" \o convert_no_dollar(SubSeq(raw_type, 1, Find(raw_type, "...") - 1))
    ELSE IF raw_type \in DOMAIN PRIMITIVE_TYPE_MAPPING
        THEN PRIMITIVE_TYPE_MAPPING[raw_type]
    ELSE IF Contains(raw_type, ".") \/ Contains(raw_type, "_")
        THEN "L" \o Replace(raw_type, ".", "/") \o ";"
    ELSE "Ljava/lang/" \o raw_type \o ";"

\* RizinImp._convert_type_to_type_signature
RECURSIVE _convert_type_to_type_signature(_)
_convert_type_to_type_signature(raw_type) ==
    IF raw_type = "" THEN raw_type
    ELSE IF EndsWith(raw_type, "[]")
        THEN "[" \o _convert_type_to_type_signature(SubSeq(raw_type, 1, Len(raw_type) - 2))
    ELSE IF StartsWith(raw_type, "[")
        THEN "[" \o _convert_type_to_type_signature(SubSeq(raw_type, 2, Len(raw_type)))
    ELSE IF Contains(raw_type, "...")
        THEN "[" \o _convert_type_to_type_signature(
                        SubSeq(raw_type, 1, Find(raw_type, "...") - 1))
    ELSE IF raw_type \in DOMAIN PRIMITIVE_TYPE_MAPPING
        THEN PRIMITIVE_TYPE_MAPPING[raw_type]
    ELSE IF Contains(raw_type, ".") \/ Contains(raw_type, "_")
        THEN "L" \o Replace(Replace(raw_type, ".", "/"), "_", "$") \o ";"
    ELSE "Ljava/lang/" \o raw_type \o ";"

---------------------------------------------------------------------------
(* Inputs of the converter: every concatenation of 1..MaxTokens tokens.    *)

MaxTokens == 3

ConvTokens == DOMAIN PRIMITIVE_TYPE_MAPPING \cup {"String", "[", "[]", "...", ".", "_"}

RECURSIVE ConcatAll(_)
ConcatAll(parts) == IF parts = <<>> THEN "" ELSE parts[1] \o ConcatAll(Tail(parts))

TokenStrings(tokens, n) ==
    {ConcatAll(parts) : parts \in UNION {[1..k -> tokens] : k \in 1..n}}

ConvInputs == TokenStrings(ConvTokens, MaxTokens)

InitConvert ==
    /\ input \in ConvInputs
    /\ output = ""
    /\ phase = "called"
    /\ method_set = {}
    /\ NewFacade

ConvertCall ==
    /\ phase = "called"
    /\ output' = _convert_type_to_type_signature(input)
    /\ phase' = "returned"
    /\ UNCHANGED <<input, method_set, facadeVars>>

NextConvert == ConvertCall

SpecConvert == InitConvert /\ [][NextConvert]_vars

---------------------------------------------------------------------------
(* The converter's contract, rule by rule.                                 *)

\* every '.' becomes '/' and every '_' becomes '$', position by position
Mangled(name) ==
    ConcatAll([i \in 1..Len(name) |->
                  IF At(name, i) = "." THEN "/"
                  ELSE IF At(name, i) = "_" THEN "$"
                  ELSE At(name, i)])

HasChar(name, c) == \E i \in 1..Len(name) : At(name, i) = c

RECURSIVE RefConvert(_)
RefConvert(t) ==
    CASE t = "" -> ""
      [] t # "" /\ EndsWith(t, "[]") ->
            "[" \o RefConvert(SubSeq(t, 1, Len(t) - 2))
      [] t # "" /\ ~EndsWith(t, "[]") /\ StartsWith(t, "[") ->
            "[" \o RefConvert(SubSeq(t, 2, Len(t)))
      [] OTHER ->
            IF \E i \in 1..Len(t) : OccursAt(t, "...", i)
            THEN LET i == CHOOSE k \in 1..Len(t) :
                              /\ OccursAt(t, "...", k)
                              /\ \A j \in 1..(k - 1) : ~OccursAt(t, "...", j)
                 IN "[" \o RefConvert(SubSeq(t, 1, i - 1))
            ELSE IF t = "void" THEN "V"
            ELSE IF t = "boolean" THEN "Z"
            ELSE IF t = "byte" THEN "B"
            ELSE IF t = "char" THEN "C"
            ELSE IF t = "short" THEN "S"
            ELSE IF t = "int" THEN "I"
            ELSE IF t = "long" THEN "J"
            ELSE IF t = "float" THEN "F"
            ELSE IF t = "double" THEN "D"
            ELSE IF HasChar(t, ".") \/ HasChar(t, "_") THEN "L" \o Mangled(t) \o ";"
            ELSE "Ljava/lang/" \o t \o ";"

\* C3: for every non-empty input the converter returns what the priority
\* rules (a) array forms, (b) ellipsis, (c) primitive table, (d) qualified
\* or inner-class name, (e) java.lang default prescribe; in particular
\* convert(T + "[]") = "[" + convert(T).
C3_ConvertFollowsPriorityRules ==
    phase = "returned" =>
        /\ input # ""
        /\ output = RefConvert(input)
        /\ EndsWith(input, "[]") =>
              output = "[" \o _convert_type_to_type_signature(
                                  SubSeq(input, 1, Len(input) - 2))

\* an array of an inner-class name has been converted
C3_Witness ==
    /\ phase = "returned"
    /\ input = "String_[]"
    /\ output = "[LString$;"

---------------------------------------------------------------------------
(* MethodObject: a dataclass(unsafe_hash=True) whose fields access_flags   *)
(* and cache are declared with compare=False.                              *)

MethodObject(class_name, name, descriptor, access_flags, cache) ==
    [class_name |-> class_name, name |-> name, descriptor |-> descriptor,
     access_flags |-> access_flags, cache |-> cache]

\* the tuple of the compare=True fields, in declaration order, that the
\* generated __eq__ and __hash__ are computed from
MethodObject_key(m) == <<m.class_name, m.name, m.descriptor>>

\* mutant: the cache field takes part in comparisons (compare=False lost)
MethodObject_eq_with_cache(a, b) ==
    <<a.class_name, a.name, a.descriptor, a.cache>>
        = <<b.class_name, b.name, b.descriptor, b.cache>>

\* MethodObject.__eq__
MethodObject_eq(a, b) == MethodObject_key(a) = MethodObject_key(b)

\* MethodObject.__hash__: hash() of the key tuple, modelled by the tuple
MethodObject_hash(m) == MethodObject_key(m)

\* set.add: an element is kept out when the set holds an equal one
SetAdd(S, m) ==
    IF \E x \in S : MethodObject_hash(x) = MethodObject_hash(m) /\ MethodObject_eq(x, m)
    THEN S
    ELSE S \cup {m}

\* set.update(list) / set(list): the elements are added in list order
RECURSIVE SetUpdate(_, _)
SetUpdate(S, list) ==
    IF list = <<>> THEN S ELSE SetUpdate(SetAdd(S, Head(list)), Tail(list))

\* m in S
SetHas(S, m) ==
    \E x \in S : MethodObject_hash(x) = MethodObject_hash(m) /\ MethodObject_eq(x, m)

\* RizinCache = namedtuple("rizin_cache", "address dexindex is_imported")
RizinCache(address, dexindex, is_imported) ==
    [address |-> address, dexindex |-> dexindex, is_imported |-> is_imported]

MethodTriples ==
    {<<"La/B;", "get", "()V">>, <<"La/B;", "<init>", "()V">>, <<"La/C;", "get", "(I)V">>}

MethodPool ==
    {MethodObject(t[1], t[2], t[3], f, h) :
        t \in MethodTriples,
        f \in {None, Some(<<"public">>)},
        h \in {RizinCache(0, 0, TRUE), RizinCache(16, 1, FALSE)}}

InitMethodSet ==
    /\ input = None
    /\ output = None
    /\ phase = "idle"
    /\ method_set = {}
    /\ NewFacade

\* method_set.add(m)
AddMethod ==
    \E m \in MethodPool :
        /\ method_set' = SetAdd(method_set, m)
        /\ input' = Some(m)
        /\ output' = Some(SetHas(method_set, m))
        /\ UNCHANGED <<phase, facadeVars>>

NextMethodSet == AddMethod

SpecMethodSet == InitMethodSet /\ [][NextMethodSet]_vars

\* C1: two MethodObjects are equal, and hash equally, exactly when their
\* (class_name, name, descriptor) triples are equal, whatever access_flags
\* and cache hold; a set of MethodObjects has at most one element per triple.
C1_IdentityIsTheTriple ==
    /\ \A a, b \in MethodPool :
          LET same == a.class_name = b.class_name /\ a.name = b.name
                      /\ a.descriptor = b.descriptor
          IN /\ MethodObject_eq(a, b) <=> same
             /\ (MethodObject_hash(a) = MethodObject_hash(b)) <=> same
    /\ \A x, y \in method_set :
          (x.class_name = y.class_name /\ x.name = y.name
           /\ x.descriptor = y.descriptor) => x = y

\* an object was added while the set held another object with the same
\* triple but different access flags and cache handle, and was kept out
C1_Witness ==
    /\ input # None
    /\ output = Some(TRUE)
    /\ input[1] \notin method_set
    /\ \E x \in method_set :
          /\ MethodObject_key(x) = MethodObject_key(input[1])
          /\ x.access_flags # input[1].access_flags
          /\ x.cache # input[1].cache

---------------------------------------------------------------------------
(* Disassembly Line Parser                                                 *)

\* registers is None or Some(list of register names); parameter is None or
\* Some(string)
BytecodeObject(mnemonic, registers, parameter) ==
    [mnemonic |-> mnemonic, registers |-> registers, parameter |-> parameter]

\* position of the first character of s that is in (want) or not in (~want)
\* the class cls, at or after position i; Len(s) + 1 when there is none
RECURSIVE Scan(_, _, _, _)
Scan(s, cls, want, i) ==
    IF i > Len(s) THEN Len(s) + 1
    ELSE IF (At(s, i) \in cls) = want THEN i
    ELSE Scan(s, cls, want, i + 1)

\* smali.split(maxsplit=1): the first word and, when something other than
\* white space follows it, the rest of the line
SplitFirstWord(s) ==
    LET body == LStrip(s)
        stop == Scan(body, Whitespace, TRUE, 1)
        rest == LStrip(SubSeq(body, stop, Len(body)))
    IN IF body = "" THEN <<>>
       ELSE IF rest = "" THEN <<SubSeq(body, 1, stop - 1)>>
       ELSE <<SubSeq(body, 1, stop - 1), rest>>

\* re.split("[<cls>]+", s): the pieces between the maximal runs of cls
RECURSIVE ReSplitRuns(_, _)
ReSplitRuns(s, cls) ==
    LET i == Scan(s, cls, TRUE, 1)
        j == Scan(s, cls, FALSE, i)
    IN IF i > Len(s) THEN <<s>>
       ELSE <<SubSeq(s, 1, i - 1)>> \o ReSplitRuns(SubSeq(s, j, Len(s)), cls)

NonEmpty(piece) == piece # ""

\* [f(x) for x in seq]
StripEach(seq) == [i \in 1..Len(seq) |-> Strip(seq[i])]

RECURSIVE DigitsValue(_, _)
DigitsValue(s, acc) ==
    IF s = "" THEN acc
    ELSE IF At(s, 1) = "_" THEN DigitsValue(SubSeq(s, 2, Len(s)), acc)
    ELSE DigitsValue(SubSeq(s, 2, Len(s)), 10 * acc + DigitValue[At(s, 1)])

\* the text int() accepts once white space and sign are removed: digits,
\* with single underscores allowed between digits
IsDigits(s) ==
    /\ s # ""
    /\ \A i \in 1..Len(s) : At(s, i) \in Digit \cup {"_"}
    /\ At(s, 1) # "_" /\ At(s, Len(s)) # "_"
    /\ ~Contains(s, "__")

\* the white space that int() skips around the literal: that of str.strip
\* without U+001C to U+001F
IntWhitespace == Whitespace \ {"", "", "", ""}

RECURSIVE IntStrip(_)
IntStrip(s) ==
    IF s # "" /\ At(s, 1) \in IntWhitespace THEN IntStrip(SubSeq(s, 2, Len(s)))
    ELSE IF s # "" /\ At(s, Len(s)) \in IntWhitespace
    THEN IntStrip(SubSeq(s, 1, Len(s) - 1))
    ELSE s

\* int(text): <<n>> for a decimal literal, None when int() raises ValueError
ParseInt(text) ==
    LET t == IntStrip(text)
        signed == t # "" /\ At(t, 1) \in {"+", "-"}
        digits == IF signed THEN SubSeq(t, 2, Len(t)) ELSE t
    IN IF ~IsDigits(digits) THEN None
       ELSE IF signed /\ At(t, 1) = "-" THEN Some(0 - DigitsValue(digits, 0))
       ELSE Some(DigitsValue(digits, 0))

DigitChar == <<"0", "1", "2", "3", "4", "5", "6", "7", "8", "9">>

RECURSIVE NatToStr(_)
NatToStr(n) == IF n < 10 THEN DigitChar[n + 1] ELSE NatToStr(n \div 10) \o DigitChar[(n % 10) + 1]

\* str(index)
IntToStr(n) == IF n < 0 THEN "-" \o NatToStr(0 - n) ELSE NatToStr(n)

\* [int(reg[1:]) for reg in regs]: None when some int() raises
ParseRegisters(regs) ==
    LET parsed == [i \in 1..Len(regs) |-> ParseInt(SubSeq(regs[i], 2, Len(regs[i])))]
    IN IF \E i \in 1..Len(regs) : parsed[i] = None THEN None
       ELSE Some([i \in 1..Len(regs) |-> parsed[i][1]])

\* [f"v{index}" for index in register_list]
RegisterNames(indices) == [i \in 1..Len(indices) |-> "v" \o IntToStr(indices[i])]

\* mutant: every '.' of the parameter is rewritten, not only the first
sub_every_dot(parameter) == Replace(parameter, ".", "->")

\* re.sub(r"\.", "->", parameter, count=1)
sub_first_dot(parameter) ==
    IF Find(parameter, ".") = 0 THEN parameter
    ELSE SubSeq(parameter, 1, Find(parameter, ".") - 1) \o "->"
         \o SubSeq(parameter, Find(parameter, ".") + 1, Len(parameter))

\* mutant: the upper end of the range is left out
range_exclusive(first, last) == [i \in 1..(IF last > first THEN last - first ELSE 0) |-> first + i - 1]

\* list(range(first, last + 1))
range_inclusive(first, last) ==
    [i \in 1..(IF last >= first THEN last - first + 1 ELSE 0) |-> first + i - 1]

\* RizinImp._parse_smali
_parse_smali(smali) ==
    IF smali = "" THEN Raised("ValueError")
    ELSE IF ~Contains(smali, " ") THEN Ret(BytecodeObject(smali, None, None))
    ELSE
    LET words == SplitFirstWord(smali)
    IN IF Len(words) # 2 THEN Raised("ValueError")
       ELSE
       LET mnemonic == words[1]
           args0 == StripEach(SelectSeq(ReSplitRuns(words[2], {"{", "}", ","}), NonEmpty))
           has_parameter == args0 # <<>> /\ ~StartsWith(args0[Len(args0)], "v")
           raw_parameter == args0[Len(args0)]
           parameter ==
               IF ~has_parameter THEN None
               ELSE IF StartsWith(mnemonic, "invoke") THEN Some(sub_first_dot(raw_parameter))
               ELSE Some(raw_parameter)
           args == IF has_parameter THEN SubSeq(args0, 1, Len(args0) - 1) ELSE args0
       IN IF Len(args) = 1 /\ (Contains(args[1], ":") \/ Contains(args[1], ".."))
          THEN LET ends == ParseRegisters(SelectSeq(ReSplitRuns(args[1], {":", "."}), NonEmpty))
               IN IF ends = None THEN Raised("ValueError")
                  ELSE IF Contains(args[1], "..")
                  THEN IF Len(ends[1]) < 2 THEN Raised("IndexError")
                       ELSE Ret(BytecodeObject(mnemonic,
                                Some(RegisterNames(range_inclusive(ends[1][1], ends[1][2]))),
                                parameter))
                  ELSE Ret(BytecodeObject(mnemonic, Some(RegisterNames(ends[1])), parameter))
          ELSE IF Len(args) # 0
          THEN LET indices == ParseRegisters(args)
               IN IF indices = None THEN Raised("ValueError")
                  ELSE Ret(BytecodeObject(mnemonic, Some(RegisterNames(indices[1])), parameter))
          ELSE Ret(BytecodeObject(mnemonic, Some(<<>>), parameter))

---------------------------------------------------------------------------
(* Lines handed to the parser: an instruction with a register list or a   *)
(* register range, with or without a trailing parameter, and a few lines  *)
(* of other shapes.                                                        *)

MaxRegs == 2

MaxRegister == 11

Mnemonics == {"invoke-virtual", "invoke-static/range", "filled-new-array/range"}

MethodRefs ==
    {"Ljava/lang/String;->concat(Ljava/lang/String;)Ljava/lang/String;",
     "Ljava/lang/String.concat(Ljava/lang/String;)Ljava/lang/String;",
     "La/B;.get(Lc.D;)V",
     "[I"}

RegToken(n) == "v" \o IntToStr(n)

Trailer(parameter) == IF parameter = None THEN "" ELSE ", " \o parameter[1]

ListCases ==
    {[shape |-> "list", mnemonic |-> m, written |-> [i \in 1..Len(regs) |-> RegToken(regs[i])],
      first |-> 0, last |-> 0, parameter |-> q,
      line |-> m \o " {" \o Join(", ", [i \in 1..Len(regs) |-> RegToken(regs[i])]) \o "}"
               \o Trailer(q)] :
        m \in Mnemonics,
        regs \in UNION {[1..k -> 0..MaxRegister] : k \in 0..MaxRegs},
        q \in {None} \cup {Some(r) : r \in MethodRefs}}

RangeCases ==
    {[shape |-> marker, mnemonic |-> m, written |-> <<RegToken(ab[1]), RegToken(ab[2])>>,
      first |-> ab[1], last |-> ab[2], parameter |-> q,
      line |-> m \o " {" \o RegToken(ab[1]) \o marker \o RegToken(ab[2]) \o "}" \o Trailer(q)] :
        m \in Mnemonics,
        ab \in {xy \in (0..MaxRegister) \X (0..MaxRegister) : xy[1] <= xy[2]},
        marker \in {"..", ":"},
        q \in {None} \cup {Some(r) : r \in MethodRefs}}

RawLines ==
    {"", "nop", "return-void ", " nop", "const-string v0, str.hello",
     "move v0, v1", "invoke-virtual {v1, vx}, La/B;->c()V", "const/4 v0 , 0x1"}

RawCases ==
    {[shape |-> "raw", mnemonic |-> "", written |-> <<>>, first |-> 0, last |-> 0,
      parameter |-> None, line |-> l] : l \in RawLines}

SmaliCases == ListCases \cup RangeCases \cup RawCases

InitSmali ==
    /\ input \in SmaliCases
    /\ output = Pending
    /\ phase = "called"
    /\ method_set = {}
    /\ NewFacade

ParseSmaliCall ==
    /\ phase = "called"
    /\ output' = _parse_smali(input.line)
    /\ phase' = "returned"
    /\ UNCHANGED <<input, method_set, facadeVars>>

NextSmali == ParseSmaliCall

SpecSmali == InitSmali /\ [][NextSmali]_vars

\* the reference with its first '.', when it has one, replaced by "->"
FirstDotRewritten(ref) ==
    IF \A i \in 1..Len(ref) : At(ref, i) # "." THEN ref
    ELSE LET d == CHOOSE i \in 1..Len(ref) :
                      At(ref, i) = "." /\ \A j \in 1..(i - 1) : At(ref, j) # "."
         IN SubSeq(ref, 1, d - 1) \o "->" \o SubSeq(ref, d + 1, Len(ref))

\* C6: for '<invoke-mnemonic> {vA, vB, ...}, <method reference>' the parser
\* returns that mnemonic, the registers as written and in written order, and
\* the reference with only its first '.' rewritten to '->'.
C6_InvokeLineParsed ==
    (/\ phase = "returned"
     /\ input.shape = "list"
     /\ StartsWith(input.mnemonic, "invoke")
     /\ input.parameter # None)
    => output = Ret(BytecodeObject(input.mnemonic, Some(input.written),
                                   Some(FirstDotRewritten(input.parameter[1]))))

\* the line of the specification's example has been parsed
C6_Witness ==
    /\ phase = "returned"
    /\ input.line = "invoke-virtual {v1, v2}, Ljava/lang/String;->concat(Ljava/lang/String;)Ljava/lang/String;"
    /\ output = Ret(BytecodeObject("invoke-virtual", Some(<<"v1", "v2">>),
                 Some("Ljava/lang/String;->concat(Ljava/lang/String;)Ljava/lang/String;")))

\* a reference with two dots has been parsed and only the first was rewritten
C6_WitnessDot ==
    /\ phase = "returned"
    /\ input.line = "invoke-virtual {v10}, La/B;.get(Lc.D;)V"
    /\ output = Ret(BytecodeObject("invoke-virtual", Some(<<"v10">>),
                                   Some("La/B;->get(Lc.D;)V")))

\* C7: a ranged register expression 'vA..vB' with A <= B, with or without a
\* trailing parameter, is parsed into exactly vA, v(A+1), ..., vB.
C7_RangeExpanded ==
    (phase = "returned" /\ input.shape = "..")
    => /\ ~IsRaised(output)
       /\ output.ret.registers =
              Some([i \in 1..(input.last - input.first + 1) |->
                        "v" \o IntToStr(input.first + i - 1)])

\* v0..v5 followed by a parameter has been expanded to v0, ..., v5
C7_Witness ==
    /\ phase = "returned"
    /\ input.shape = ".."
    /\ input.line = "invoke-static/range {v0..v5}, [I"
    /\ output = Ret(BytecodeObject("invoke-static/range",
                        Some(<<"v0", "v1", "v2", "v3", "v4", "v5">>), Some("[I")))

---------------------------------------------------------------------------
(* quark.utils.tools.descriptor_to_androguard_format                        *)

\* position of the first ';' of s at or after position i; 0 when none
NextSemicolon(s, i) ==
    IF \E j \in i..Len(s) : At(s, j) = ";"
    THEN SetMin({j \in i..Len(s) : At(s, j) = ";"})
    ELSE 0

\* where L.+?; matched at i ends: the first ';' at or after i + 2, with no
\* line feed before it ('.' does not match a line feed); 0 when no match
ClassTypeEnd(s, i) ==
    LET j == NextSemicolon(s, i + 2)
    IN IF j # 0 /\ \A k \in (i + 1)..(j - 1) : At(s, k) # "\n" THEN j ELSE 0

\* re.findall(r"L.+?;|[ZBCSIJFD]|\[", s), scanning from position i
RECURSIVE FindAllTypes(_, _)
FindAllTypes(s, i) ==
    IF i > Len(s) THEN <<>>
    ELSE IF At(s, i) = "L" /\ ClassTypeEnd(s, i) # 0
        THEN <<SubSeq(s, i, ClassTypeEnd(s, i))>>
             \o FindAllTypes(s, ClassTypeEnd(s, i) + 1)
    ELSE IF At(s, i) \in {"Z", "B", "C", "S", "I", "J", "F", "D", "["}
        THEN <<At(s, i)>> \o FindAllTypes(s, i + 1)
    ELSE FindAllTypes(s, i + 1)

\* re.sub(r"\[ ", "[", s)
RECURSIVE SubBracketSpace(_)
SubBracketSpace(s) ==
    IF s = "" THEN ""
    ELSE IF StartsWith(s, "[ ") THEN "[" \o SubBracketSpace(SubSeq(s, 3, Len(s)))
    ELSE At(s, 1) \o SubBracketSpace(SubSeq(s, 2, Len(s)))

\* descriptor_to_androguard_format: Ret(text) or Raised("ValueError")
descriptor_to_androguard_format(descriptor) ==
    IF ~Contains(descriptor, "(") \/ ~Contains(descriptor, ")") THEN Raised("ValueError")
    ELSE LET delimiter == Find(descriptor, ")")
             arg_str == SubSeq(descriptor, 1, delimiter - 1)
             args == FindAllTypes(arg_str, 1)
         IN Ret(SubBracketSpace("(" \o Join(" ", args)
                                \o SubSeq(descriptor, delimiter, Len(descriptor))))

---------------------------------------------------------------------------
(* Symbol Demangler                                                        *)

RIZIN_ESCAPE_CHAR_LIST == <<"<", ">", "$">>

\* RizinImp._escape_str_in_rizin_manner
_escape_str_in_rizin_manner(raw_str) ==
    Replace(Replace(Replace(raw_str, RIZIN_ESCAPE_CHAR_LIST[1], "_"),
                    RIZIN_ESCAPE_CHAR_LIST[2], "_"),
            RIZIN_ESCAPE_CHAR_LIST[3], "_")

\* next(re.finditer("\\(.*\\).*", name), None): the text from the first '('
\* that a ')' follows to the end of the name (symbol names hold no line
\* break); None when there is no such '('
SignatureText(name) ==
    LET open == Find(name, "(")
    IN IF open # 0 /\ \E j \in (open + 1)..Len(name) : At(name, j) = ")"
       THEN Some(SubSeq(name, open, Len(name)))
       ELSE None

\* the class [A-Za-z0-9L/\;[\]$.] of the return-type pattern
ReturnTypeChar == Letter \cup Digit \cup {"/", ";", "[", "]", "$", "."}

\* next(re.finditer("[A-Za-zL][A-Za-z0-9L/\;[\\]$.]+ ", name), None),
\* tried at position i and then further right: the match without its final
\* blank, None when nothing matches
RECURSIVE ReturnTypeText(_, _)
ReturnTypeText(name, i) ==
    IF i > Len(name) THEN None
    ELSE LET stop == Scan(name, ReturnTypeChar, FALSE, i + 1)
         IN IF /\ At(name, i) \in Letter
               /\ stop > i + 1
               /\ stop <= Len(name)
               /\ At(name, stop) = " "
            THEN Some(SubSeq(name, i, stop))
            ELSE ReturnTypeText(name, i + 1)

ConvertEach(seq) == [i \in 1..Len(seq) |-> _convert_type_to_type_signature(seq[i])]

\* the descriptor part (lines 154-194): Some(descriptor), or None when the
\* record is rejected
Descriptor(full_method_name) ==
    LET raw_argument_str == SignatureText(full_method_name)
    IN IF raw_argument_str = None THEN None
       ELSE IF EndsWith(raw_argument_str[1], ")")
       THEN LET inner == SubSeq(raw_argument_str[1], 2, Len(raw_argument_str[1]) - 1)
                arguments == ConvertEach(Split(inner, ", "))
                return_type == ReturnTypeText(full_method_name, 1)
            IN IF return_type = None THEN None
               ELSE Some(descriptor_to_androguard_format(
                        "(" \o Join(" ", arguments) \o ")"
                        \o _convert_type_to_type_signature(Strip(return_type[1]))).ret)
       ELSE Some(descriptor_to_androguard_format(raw_argument_str[1]).ret)

\* the last match of re.finditer("_+[A-Za-z]+", flag_name), looking from
\* position i on; last is the latest match found so far
RECURSIVE LastNameToken(_, _, _)
LastNameToken(flag_name, i, last) ==
    LET start == Scan(flag_name, {"_"}, TRUE, i)
        letters == Scan(flag_name, {"_"}, FALSE, start)
        stop == Scan(flag_name, Letter, FALSE, letters)
    IN IF start > Len(flag_name) THEN last
       ELSE IF stop > letters
       THEN LastNameToken(flag_name, stop, Some(SubSeq(flag_name, start, stop - 1)))
       ELSE LastNameToken(flag_name, letters, last)

\* mutant: only one leading prefix is dropped
strip_one_prefix(flag_name) ==
    IF StartsWith(flag_name, "sym.") \/ StartsWith(flag_name, "imp.")
    THEN SubSeq(flag_name, 5, Len(flag_name))
    ELSE flag_name

\* while flag_name.startswith("sym.") or flag_name.startswith("imp."):
\*     flag_name = flag_name[4:]
RECURSIVE strip_prefixes(_)
strip_prefixes(flag_name) ==
    IF StartsWith(flag_name, "sym.") \/ StartsWith(flag_name, "imp.")
    THEN strip_prefixes(SubSeq(flag_name, 5, Len(flag_name)))
    ELSE flag_name

\* mutant: the clone import is given the class its flag name converts to
clone_method_with_class(json_obj, dexindex) ==
    [class_name |-> _convert_type_to_type_signature(strip_prefixes(json_obj.flagname)),
     name |-> "clone", descriptor |-> "()Ljava/lang/Object;", access_flags |-> None,
     cache |-> [address |-> json_obj.vaddr, dexindex |-> dexindex,
                is_imported |-> json_obj.is_imported]]

\* the MethodObject of sym.imp.clone (lines 211-218)
clone_method(json_obj, dexindex) ==
    MethodObject("", "clone", "()Ljava/lang/Object;", None,
                 RizinCache(json_obj.vaddr, dexindex, json_obj.is_imported))

\* if escaped_method_name not in flag_name: logging.warning(...)
class_name_may_be_truncated(json_obj) ==
    LET escaped == _escape_str_in_rizin_manner(json_obj.realname)
        escaped_method_name ==
            IF EndsWith(escaped, "_") THEN SubSeq(escaped, 1, Len(escaped) - 1) ELSE escaped
    IN ~Contains(json_obj.flagname, escaped_method_name)

\* RizinImp._parse_method_from_isj_obj: None or Some(MethodObject)
_parse_method_from_isj_obj(json_obj, dexindex) ==
    IF json_obj.type \notin {"FUNC", "METH"} THEN None
    ELSE LET descriptor == Descriptor(json_obj.name)
             flag_name == json_obj.flagname
             match == LastNameToken(flag_name, 1, None)
         IN IF descriptor = None THEN None
            ELSE IF flag_name = "sym.imp.clone" THEN Some(clone_method(json_obj, dexindex))
            ELSE IF match = None THEN None
            ELSE Some(MethodObject(
                    _convert_type_to_type_signature(
                        strip_prefixes(SubSeq(flag_name, 1, RFind(flag_name, match[1]) - 1))),
                    json_obj.realname,
                    descriptor[1],
                    None,
                    RizinCache(json_obj.vaddr, dexindex, json_obj.is_imported)))

---------------------------------------------------------------------------
(* Symbol records handed to the demangler.                                 *)

MaxFlagTokens == 3

FlagTokens == {"sym.", "imp.", "a.B_get", "_get", "_", "clone"}

DisplayNames ==
    {"get(La/B;I)I", "int get(a.B, String[])", "imp.clone()Ljava/lang/Object;",
     "A get()", "get"}

SymbolRecords ==
    {[type |-> t, name |-> n, realname |-> r, flagname |-> f,
      is_imported |-> i, vaddr |-> IF i THEN 0 ELSE 16] :
        t \in {"FUNC", "METH", "OBJ"},
        n \in DisplayNames,
        r \in {"get", "clone"},
        f \in TokenStrings(FlagTokens, MaxFlagTokens),
        i \in BOOLEAN}

InitDemangle ==
    /\ input \in SymbolRecords
    /\ output = Pending
    /\ phase = "called"
    /\ method_set = {}
    /\ NewFacade

DemangleCall ==
    /\ phase = "called"
    /\ output' = Ret(_parse_method_from_isj_obj(input, 0))
    /\ phase' = "returned"
    /\ UNCHANGED <<input, method_set, facadeVars>>

NextDemangle == DemangleCall

SpecDemangle == InitDemangle /\ [][NextDemangle]_vars

\* the positions where a maximal run of '_' that a letter follows begins
NameTokenStarts(flag) ==
    {i \in 1..Len(flag) :
        /\ At(flag, i) = "_"
        /\ (i = 1 \/ At(flag, i - 1) # "_")
        /\ \E j \in (i + 1)..Len(flag) :
              /\ At(flag, j) \in Letter
              /\ \A k \in i..(j - 1) : At(flag, k) = "_"}

\* the last '_+letters' token of the flag name: the run of '_' and all the
\* letters that follow it
LastNameTokenText(flag) ==
    LET s == SetMax(NameTokenStarts(flag))
        e == SetMax({j \in s..Len(flag) :
                        \A k \in s..j : At(flag, k) \in Letter \cup {"_"}
                        /\ (At(flag, k) = "_" =>
                               \A m \in s..k : At(flag, m) = "_")})
    IN SubSeq(flag, s, e)

\* the flag name cut at the last occurrence of its last '_+letters' token
CutAtLastNameToken(flag) ==
    LET token == LastNameTokenText(flag)
        q == SetMax({i \in 1..Len(flag) : OccursAt(flag, token, i)})
    IN SubSeq(flag, 1, q - 1)

\* s without its leading run of "sym." / "imp." prefixes
WithoutLeadingPrefixes(s) ==
    LET n == SetMax({k \in 0..(Len(s) \div 4) :
                        \A m \in 1..k : SubSeq(s, 4 * m - 3, 4 * m) \in {"sym.", "imp."}})
    IN SubSeq(s, 4 * n + 1, Len(s))

\* C4: for every accepted record other than the clone import, the class
\* descriptor is convert(F'), F' being the flag name cut at the last
\* occurrence of its last '_+letters' token and stripped of every leading
\* "sym." / "imp."; a flag that begins with such a prefix leaves none of
\* them in the class descriptor.
C4_ClassFromFlagName ==
    (/\ phase = "returned"
     /\ output.ret # None
     /\ input.flagname # "sym.imp.clone")
    => /\ output.ret[1].class_name =
              _convert_type_to_type_signature(
                  WithoutLeadingPrefixes(CutAtLastNameToken(input.flagname)))
       /\ (StartsWith(input.flagname, "sym.") \/ StartsWith(input.flagname, "imp."))
              => /\ ~Contains(output.ret[1].class_name, "sym.")
                 /\ ~Contains(output.ret[1].class_name, "imp.")

\* a flag with two leading prefixes has been demangled to its bare class
C4_Witness ==
    /\ phase = "returned"
    /\ input.flagname = "sym.imp.a.B_get"
    /\ input.type = "METH"
    /\ output.ret # None
    /\ output.ret[1].class_name = "La/B;"

HasParenthesisedSignature(name) ==
    \E i, j \in 1..Len(name) : i < j /\ At(name, i) = "(" /\ At(name, j) = ")"

HasReturnTypeToken(name) ==
    \E i, k \in 1..Len(name) :
        /\ i + 1 < k
        /\ At(name, i) \in Letter
        /\ At(name, k) = " "
        /\ \A m \in (i + 1)..(k - 1) : At(name, m) \in ReturnTypeChar

IsCloneSignature(result) ==
    /\ result # None
    /\ result[1].class_name = ""
    /\ result[1].name = "clone"
    /\ result[1].descriptor = "()Ljava/lang/Object;"

\* C5 as stated: every record whose flag name is sym.imp.clone is demangled
\* to the class-less clone signature, whatever its kind tag, display name
\* and real name are.
C5_CloneWhateverTheRecord ==
    (phase = "returned" /\ input.flagname = "sym.imp.clone")
    => IsCloneSignature(output.ret)

\* C5 amended: a record whose flag name is sym.imp.clone is rejected when
\* its kind tag is neither FUNC nor METH or its display name carries no
\* parenthesised signature; it is demangled to the class-less clone
\* signature, whatever that signature and the real name are, when its kind
\* tag is FUNC or METH and its display name carries a parenthesised
\* signature that either is followed by return-type text or is preceded by
\* a return-type token of two or more characters.  Nothing is stated for a
\* source-level display name whose return-type token is shorter or missing.
C5_CloneWhenRecordPassesTheChecks ==
    (phase = "returned" /\ input.flagname = "sym.imp.clone")
    => /\ (input.type \notin {"FUNC", "METH"} \/ ~HasParenthesisedSignature(input.name))
             => output.ret = None
       /\ (/\ input.type \in {"FUNC", "METH"}
           /\ HasParenthesisedSignature(input.name)
           /\ (EndsWith(input.name, ")") => HasReturnTypeToken(input.name)))
             => /\ IsCloneSignature(output.ret)
                /\ output.ret[1].cache = RizinCache(input.vaddr, 0, input.is_imported)

\* a clone import whose display name and real name are those of another
\* method has been demangled to the clone signature
C5_Witness ==
    /\ phase = "returned"
    /\ input.flagname = "sym.imp.clone"
    /\ input.type = "FUNC"
    /\ input.name = "int get(a.B, String[])"
    /\ input.realname = "get"
    /\ IsCloneSignature(output.ret)

---------------------------------------------------------------------------
(* The backend: what the Rizin session of each Dex file answers.  The     *)
(* package holds two Dex files; addresses are local to a Dex file, so the *)
(* same address names different methods in the two sessions.              *)

_number_of_dex == 2

DexIndices == 0..(_number_of_dex - 1)

Symbol(type, name, realname, flagname, is_imported, vaddr, size) ==
    [type |-> type, name |-> name, realname |-> realname, flagname |-> flagname,
     is_imported |-> is_imported, vaddr |-> vaddr, size |-> size]

\* rz.cmdj("isj"): the symbol listing of a Dex file
isj(dexindex) ==
    IF dexindex = 0 THEN
        <<Symbol("METH", "run()V", "run", "sym.a.A_run", FALSE, 16, 16),
          Symbol("METH", "get(La/B;I)I", "get", "sym.a.B_get", FALSE, 32, 8),
          Symbol("METH", "put()V", "put", "sym.a.B_put", FALSE, 40, 8),
          Symbol("FUNC", "get(La/B;I)I", "get", "sym.a.B_get", FALSE, 32, 8),
          Symbol("FUNC", "trim()Ljava/lang/String;", "trim",
                 "sym.imp.java.lang.String_trim", TRUE, 64, 8),
          Symbol("FUNC", "aim()V", "aim", "sym.imp.c.E_aim", TRUE, 80, 8),
          Symbol("OBJ", "a.A", "A", "sym.a.A", FALSE, 128, 8)>>
    ELSE IF dexindex = 1 THEN
        <<Symbol("METH", "go()V", "go", "sym.c.C_go", FALSE, 16, 16),
          Symbol("METH", "hit()V", "hit", "sym.c.D_hit", FALSE, 48, 8),
          Symbol("METH", "aim()V", "aim", "sym.c.E_aim", FALSE, 56, 8),
          Symbol("FUNC", "trim()Ljava/lang/String;", "trim",
                 "sym.imp.java.lang.String_trim", TRUE, 72, 8)>>
    ELSE <<>>

\* rz.cmdj("is.j @ address"): the symbols whose range holds the address
is_j_at(dexindex, address) ==
    SelectSeq(isj(dexindex),
              LAMBDA s : s.vaddr <= address /\ address < s.vaddr + s.size)

Xref(type, from) == [type |-> type, from |-> from]

\* a cross-reference the backend reports without its source address
XrefWithoutFrom(type) == [type |-> type]

\* rz.cmdj("axtj @ address"): the cross-references to an address
axtj(dexindex, address) ==
    IF dexindex = 0 /\ address = 32 THEN
        <<Xref("CALL", 20), Xref("DATA", 44), Xref("CALL", 200), Xref("CALL", 24),
          XrefWithoutFrom("CALL")>>
    ELSE IF dexindex = 0 /\ address = 40 THEN <<Xref("CALL", 36)>>
    ELSE IF dexindex = 0 /\ address = 64 THEN <<Xref("CALL", 16)>>
    ELSE IF dexindex = 1 /\ address = 48 THEN <<Xref("CALL", 18)>>
    ELSE IF dexindex = 1 /\ address = 72 THEN <<Xref("CALL", 50)>>
    ELSE <<>>

OutXref(type, addr) == [type |-> type, addr |-> addr]

Instruction(offset, disasm, bytes, xrefs_from) ==
    [offset |-> offset, disasm |-> disasm, bytes |-> bytes, xrefs_from |-> xrefs_from]

\* an instruction the backend reports without outgoing edges
PlainInstruction(offset, disasm, bytes) ==
    [offset |-> offset, disasm |-> disasm, bytes |-> bytes]

\* rz.cmdj("pdfj @ address")["ops"]: the instructions of the method at an
\* address
pdfj_ops(dexindex, address) ==
    IF dexindex = 0 /\ address = 16 THEN
        <<Instruction(16, "invoke-virtual {v1}, Ljava/lang/String.trim()Ljava/lang/String; ; 0x40",
                      "6e100100", <<OutXref("CALL", 64)>>),
          Instruction(20, "invoke-virtual {v1, v2}, La/B.get(La/B;I)I ; 0x20",
                      "6e200221", <<OutXref("CALL", 32), OutXref("DATA", 128)>>),
          Instruction(24, "invoke-virtual {v1, v2}, La/B.get(La/B;I)I ; 0x20",
                      "6e200221", <<OutXref("CALL", 32)>>),
          PlainInstruction(28, "return-void", "0e00")>>
    ELSE IF dexindex = 0 /\ address = 32 THEN
        <<Instruction(36, "invoke-virtual {v0}, La/B;->put()V", "6e100300",
                      <<OutXref("CALL", 40)>>),
          Instruction(38, "invoke-virtual {v0}, La/B.put()V", "6e100301",
                      <<OutXref("CALL", 40), OutXref("CALL", 200)>>)>>
    ELSE IF dexindex = 0 /\ address = 40 THEN
        <<Instruction(40, "invoke-static {}, La/A.run()V", "7100", <<OutXref("CALL", 16)>>)>>
    ELSE IF dexindex = 1 /\ address = 16 THEN
        <<Instruction(18, "invoke-virtual {v0}, Lc/D.hit()V ; 0x30", "6e100400",
                      <<OutXref("CALL", 48)>>),
          PlainInstruction(22, "", "0000")>>
    ELSE IF dexindex = 1 /\ address = 48 THEN
        <<Instruction(50, "invoke-virtual {v0}, Ljava/lang/String;->trim()Ljava/lang/String;",
                      "6e100500", <<OutXref("CALL", 72)>>)>>
    ELSE <<>>

\* a command sent to the session of one Dex file
Command(session, cmd, address) == [session |-> session, cmd |-> cmd, address |-> address]

---------------------------------------------------------------------------
(* Method Table Builder                                                    *)

\* mutant: the first rejected record ends the build
RECURSIVE ParsedMethods_until_rejected(_, _)
ParsedMethods_until_rejected(listing, dexindex) ==
    IF listing = <<>> THEN <<>>
    ELSE LET method == _parse_method_from_isj_obj(Head(listing), dexindex)
         IN IF method = None THEN <<>>
            ELSE <<method[1]>> \o ParsedMethods_until_rejected(Tail(listing), dexindex)

\* the records of a listing that the demangler accepts, in listing order
RECURSIVE ParsedMethods(_, _)
ParsedMethods(listing, dexindex) ==
    IF listing = <<>> THEN <<>>
    ELSE LET method == _parse_method_from_isj_obj(Head(listing), dexindex)
         IN (IF method = None THEN <<>> ELSE <<method[1]>>)
                \o ParsedMethods(Tail(listing), dexindex)

\* set(method_list) for the methods appended under one class name
Bucket(methods, class_name) ==
    SetUpdate({}, SelectSeq(methods, LAMBDA m : m.class_name = class_name))

\* list(S): the elements of a Python set in some order
Orders(S) ==
    {order \in [1..Cardinality(S) -> S] : \A x \in S : \E i \in DOMAIN order : order[i] = x}

\* remove_dup_list
remove_dup_list(methods, class_name) == Orders(Bucket(methods, class_name))

\* the tables that the loops of _get_methods_classified can build from a
\* symbol listing
TablesOf(listing, dexindex) ==
    LET methods == ParsedMethods(listing, dexindex)
        keys == {methods[i].class_name : i \in DOMAIN methods}
    IN {table \in [keys -> UNION {remove_dup_list(methods, k) : k \in keys}] :
            \A k \in keys : table[k] \in remove_dup_list(methods, k)}

\* the tables a build of _get_methods_classified(dexindex) can return
MethodTables(dexindex) == TablesOf(isj(dexindex), dexindex)

\* one fresh build for every Dex file
FreshTables == {fresh \in [DexIndices -> UNION {MethodTables(i) : i \in DexIndices}] :
                    \A i \in DexIndices : fresh[i] \in MethodTables(i)}

\* the methods of RizinImp that are wrapped in functools.lru_cache
MemoizedMethods == {"_get_rz", "_get_methods_classified", "upperfunc", "lowerfunc"}

\* @functools.lru_cache without arguments: maxsize is 128
lru_maxsize == 128

\* the keys of an lru_cache, the order being least recently used first
LruKeys(order) == {order[i] : i \in DOMAIN order}

\* the keys after a call with a key has returned: a hit makes the key the
\* most recently used one; a miss stores it, in place of the least recently
\* used key when maxsize keys are stored
lru_cache_call(order, key) ==
    IF key \in LruKeys(order)
    THEN SelectSeq(order, LAMBDA k : k # key) \o <<key>>
    ELSE (IF Len(order) >= lru_maxsize THEN Tail(order) ELSE order) \o <<key>>

\* the keys after calls with the keys, in their order: the keys stored
\* after the first half of the calls are what the second half starts from
RECURSIVE lru_cache_calls(_, _)
lru_cache_calls(order, keys) ==
    IF keys = <<>> THEN order
    ELSE IF Len(keys) = 1 THEN lru_cache_call(order, keys[1])
    ELSE LET half == Len(keys) \div 2
             stored == lru_cache_calls(order, SubSeq(keys, 1, half))
         IN IF stored = <<>> THEN <<>>
            ELSE lru_cache_calls(stored, SubSeq(keys, half + 1, Len(keys)))

\* the results that a cache still holds: those of the keys not dropped
lru_cache_entries(cache, order) ==
    [key \in DOMAIN cache \cap LruKeys(order) |-> cache[key]]

\* lookup in an lru_cache: is the key stored
Cached(cache, key) == key \in DOMAIN cache

\* self._get_methods_classified(dexindex): the memoized table, else a build
_get_methods_classified(cache, fresh, dexindex) ==
    IF Cached(cache, dexindex) THEN cache[dexindex] ELSE fresh[dexindex]

\* the keys, among those of calls made one after the other, that are not
\* stored when their call is made: these calls run the wrapped method
RECURSIVE lru_cache_misses(_, _)
lru_cache_misses(order, keys) ==
    IF keys = <<>> THEN <<>>
    ELSE (IF Head(keys) \in LruKeys(order) THEN <<>> ELSE <<Head(keys)>>)
            \o lru_cache_misses(lru_cache_call(order, Head(keys)), Tail(keys))

\* the results that a cache holds after a call with a key has returned a
\* value: the value under the key, and the earlier ones but that of the
\* key the call dropped
lru_cache_store(cache, order, key, value) ==
    LET kept == lru_cache_entries(cache, lru_cache_call(order, key))
    IN [k \in DOMAIN kept \cup {key} |-> IF k = key THEN value ELSE kept[k]]

\* the isj commands of the builds that an operation made, dexindices being
\* the Dex files built, in the order of the builds
BuildCommands(dexindices) ==
    [i \in DOMAIN dexindices |-> Command(dexindices[i], "isj", 0)]

\* the record of what the first build of each Dex file returned, extended
\* by the builds that an operation made
RecordBuilds(record, dexindices, fresh) ==
    [i \in DOMAIN record \cup LruKeys(dexindices) |->
        IF i \in DOMAIN record THEN record[i] ELSE fresh[i]]

\* mutant: the session is handed out without its analysis pass
_get_rz_without_aa(order, index) ==
    IF index \in LruKeys(order) THEN <<>> ELSE <<Command(index, "open", 0)>>

\* RizinImp._get_rz under lru_cache, order being the keys that the cache
\* holds when the call is made: what the call does on the backend.  A call
\* for an index that is not stored opens the Dex file and runs "aa" to
\* completion, a call for a stored one returns the memoized session
_get_rz(order, index) ==
    IF index \in LruKeys(order) THEN <<>>
    ELSE <<Command(index, "open", 0), Command(index, "aa", 0)>>

\* the queries of an operation, each preceded by what the _get_rz call that
\* hands out its session does; every call of _get_rz finds the keys that
\* the call before it left in the cache
RECURSIVE WithSessions(_, _)
WithSessions(cmds, order) ==
    IF cmds = <<>> THEN <<>>
    ELSE _get_rz(order, Head(cmds).session) \o <<Head(cmds)>>
            \o WithSessions(Tail(cmds), lru_cache_call(order, Head(cmds).session))

\* RizinImp._get_method_by_address: the session of Dex file 0 is asked,
\* whichever Dex file the address comes from
_get_method_by_address(address) ==
    LET dexindex == 0
        json_array == is_j_at(dexindex, address)
    IN IF json_array # <<>>
       THEN _parse_method_from_isj_obj(json_array[1], dexindex)
       ELSE None

---------------------------------------------------------------------------
(* Facade queries                                                          *)

\* method_dict[class_name] on a defaultdict(list): a key that is missing is
\* inserted with an empty list
WithKey(method_dict, class_name) ==
    IF class_name \in DOMAIN method_dict THEN method_dict
    ELSE method_dict @@ (class_name :> <<>>)

\* find_method.method_filter
method_filter(method, method_name, descriptor) ==
    /\ (method_name = "" \/ method_name = method.name)
    /\ (descriptor = "" \/ descriptor = method.descriptor)

\* the loop of RizinImp.find_method from dex_index on: the method found (or
\* None) and the memoized tables the loop leaves behind, cache and order
\* being the tables and the keys that the lru_cache of
\* _get_methods_classified holds
RECURSIVE find_method(_, _, _, _, _, _, _)
find_method(dex_index, cache, order, fresh, class_name, method_name, descriptor) ==
    IF dex_index >= _number_of_dex THEN [result |-> None, cache |-> cache]
    ELSE LET method_dict ==
                 WithKey(_get_methods_classified(cache, fresh, dex_index), class_name)
             cache1 == lru_cache_store(cache, order, dex_index, method_dict)
             filtered_methods ==
                 SelectSeq(method_dict[class_name],
                           LAMBDA m : method_filter(m, method_name, descriptor))
         IN IF filtered_methods # <<>>
            THEN [result |-> Some(filtered_methods[1]), cache |-> cache1]
            ELSE find_method(dex_index + 1, cache1, lru_cache_call(order, dex_index),
                             fresh, class_name, method_name, descriptor)

\* the values of a dict, flattened in some key order
RECURSIVE Values(_, _)
Values(method_dict, keys) ==
    IF keys = {} THEN <<>>
    ELSE LET k == CHOOSE k \in keys : TRUE
         IN method_dict[k] \o Values(method_dict, keys \ {k})

\* the loop of RizinImp.all_methods from dex_index on
RECURSIVE all_methods(_, _, _, _, _)
all_methods(dex_index, cache, order, fresh, methods) ==
    IF dex_index >= _number_of_dex THEN methods
    ELSE LET method_dict == _get_methods_classified(cache, fresh, dex_index)
         IN all_methods(dex_index + 1,
                        lru_cache_store(cache, order, dex_index, method_dict),
                        lru_cache_call(order, dex_index), fresh,
                        SetUpdate(methods, Values(method_dict, DOMAIN method_dict)))

\* the memoized tables after the loop of all_methods from dex_index on
RECURSIVE AllBuilt(_, _, _, _)
AllBuilt(dex_index, cache, order, fresh) ==
    IF dex_index >= _number_of_dex THEN cache
    ELSE AllBuilt(dex_index + 1,
                  lru_cache_store(cache, order, dex_index,
                                  _get_methods_classified(cache, fresh, dex_index)),
                  lru_cache_call(order, dex_index), fresh)

\* the loop of RizinImp.upperfunc over the cross-references
RECURSIVE upperfunc_set(_, _)
upperfunc_set(xrefs, acc) ==
    IF xrefs = <<>> THEN acc
    ELSE LET xref == Head(xrefs)
         IN IF xref.type # "CALL" THEN upperfunc_set(Tail(xrefs), acc)
            ELSE IF "from" \in DOMAIN xref
            THEN LET matched_method == _get_method_by_address(xref.from)
                 IN IF matched_method = None THEN upperfunc_set(Tail(xrefs), acc)
                    ELSE upperfunc_set(Tail(xrefs), SetAdd(acc, matched_method[1]))
            ELSE upperfunc_set(Tail(xrefs), acc)

\* RizinImp.upperfunc, when its result is not cached
upperfunc(method_object) ==
    LET cache == method_object.cache
    IN upperfunc_set(axtj(cache.dexindex, cache.address), {})

\* the commands of upperfunc: axtj to the method's session, then one is.j
\* per call edge that has a source address
RECURSIVE upperfunc_lookups(_)
upperfunc_lookups(xrefs) ==
    IF xrefs = <<>> THEN <<>>
    ELSE (IF Head(xrefs).type = "CALL" /\ "from" \in DOMAIN Head(xrefs)
          THEN <<Command(0, "is.j", Head(xrefs).from)>> ELSE <<>>)
            \o upperfunc_lookups(Tail(xrefs))

upperfunc_commands(method_object) ==
    LET cache == method_object.cache
    IN <<Command(cache.dexindex, "axtj", cache.address)>>
            \o upperfunc_lookups(axtj(cache.dexindex, cache.address))

\* the call edges among the outgoing edges of an instruction
call_xrefs(ins) ==
    IF "xrefs_from" \in DOMAIN ins
    THEN SelectSeq(ins.xrefs_from, LAMBDA xref : xref.type = "CALL")
    ELSE <<>>

\* the inner loop of RizinImp.lowerfunc: the pairs of one instruction
RECURSIVE lowerfunc_pairs(_, _, _)
lowerfunc_pairs(xrefs, ins, cache) ==
    IF xrefs = <<>> THEN <<>>
    ELSE LET lowerfunc_method == _get_method_by_address(Head(xrefs).addr)
         IN (IF lowerfunc_method = None THEN <<>>
             ELSE << <<lowerfunc_method[1], ins.offset - cache.address>> >>)
                \o lowerfunc_pairs(Tail(xrefs), ins, cache)

\* the outer loop of RizinImp.lowerfunc
RECURSIVE lowerfunc_list(_, _)
lowerfunc_list(instruct_flow, cache) ==
    IF instruct_flow = <<>> THEN <<>>
    ELSE lowerfunc_pairs(call_xrefs(Head(instruct_flow)), Head(instruct_flow), cache)
            \o lowerfunc_list(Tail(instruct_flow), cache)

\* RizinImp.lowerfunc, when its result is not cached
lowerfunc(method_object) ==
    LET cache == method_object.cache
    IN lowerfunc_list(pdfj_ops(cache.dexindex, cache.address), cache)

RECURSIVE lowerfunc_lookups(_)
lowerfunc_lookups(instruct_flow) ==
    IF instruct_flow = <<>> THEN <<>>
    ELSE LET xrefs == call_xrefs(Head(instruct_flow))
         IN [i \in DOMAIN xrefs |-> Command(0, "is.j", xrefs[i].addr)]
                \o lowerfunc_lookups(Tail(instruct_flow))

lowerfunc_commands(method_object) ==
    LET cache == method_object.cache
    IN <<Command(cache.dexindex, "pdfj", cache.address)>>
            \o lowerfunc_lookups(pdfj_ops(cache.dexindex, cache.address))

---------------------------------------------------------------------------
(* Wrapper-Evidence Extractor                                              *)

\* the word characters between U+0080 and U+00FF; those beyond U+00FF
\* cannot be written in a string of a module
Latin1WordChar ==
    {"ª", "²", "³", "µ", "¹", "º", "¼", "½", "¾", "À", "Á", "Â",
     "Ã", "Ä", "Å", "Æ", "Ç", "È", "É", "Ê", "Ë", "Ì", "Í", "Î",
     "Ï", "Ð", "Ñ", "Ò", "Ó", "Ô", "Õ", "Ö", "Ø", "Ù", "Ú", "Û",
     "Ü", "Ý", "Þ", "ß", "à", "á", "â", "ã", "ä", "å", "æ", "ç",
     "è", "é", "ê", "ë", "ì", "í", "î", "ï", "ð", "ñ", "ò", "ó",
     "ô", "õ", "ö", "ø", "ù", "ú", "û", "ü", "ý", "þ", "ÿ"}

\* regex class \w of a str pattern: letters, digits and "_", not only
\* the ASCII ones
WordChar == Letter \cup Digit \cup {"_"} \cup Latin1WordChar

\* " ".join(re.finditer(r"\w{2}", bytes)): the pairs of word characters,
\* left to right and without overlap
RECURSIVE HexPairs(_, _)
HexPairs(bytes, i) ==
    IF i + 1 > Len(bytes) THEN <<>>
    ELSE IF At(bytes, i) \in WordChar /\ At(bytes, i + 1) \in WordChar
    THEN <<SubSeq(bytes, i, i + 1)>> \o HexPairs(bytes, i + 2)
    ELSE HexPairs(bytes, i + 1)

\* get_wrapper_smali.convert_bytecode_to_list
convert_bytecode_to_list(bytecode) ==
    IF bytecode.registers = None THEN Raised("TypeError")
    ELSE Ret(<<bytecode.mnemonic>> \o bytecode.registers[1] \o <<bytecode.parameter>>)

\* search_pattern.format(class_name=m.class_name[:-1], ...)
search_pattern(method) ==
    (IF method.class_name = "" THEN ""
     ELSE SubSeq(method.class_name, 1, Len(method.class_name) - 1))
        \o "." \o method.name \o method.descriptor

\* the evidence of one target in the text of one instruction
Evidence(instrcution_string) ==
    LET parsed == _parse_smali(instrcution_string)
    IN IF IsRaised(parsed) THEN parsed ELSE convert_bytecode_to_list(parsed.ret)

\* the loop of get_wrapper_smali over the instructions; instrcution_string
\* is None until an invoke line with a ';' has been seen, and keeps the text
\* cut from the last such line
RECURSIVE scan_instructions(_, _, _, _, _)
scan_instructions(ops, first_pattern, second_pattern, instrcution_string, result) ==
    IF ops = <<>> THEN Ret(result)
    ELSE
    LET ins == Head(ops)
        rest == Tail(ops)
    IN IF ~StartsWith(ins.disasm, "invoke")
       THEN scan_instructions(rest, first_pattern, second_pattern,
                              instrcution_string, result)
       ELSE
       LET text == IF Contains(ins.disasm, ";")
                   THEN Some(SubSeq(ins.disasm, 1, RFind(ins.disasm, ";") - 1))
                   ELSE instrcution_string
       IN IF text = None THEN Raised("UnboundLocalError")
          ELSE
          LET hit1 == Contains(text[1], first_pattern)
              hit2 == Contains(text[1], second_pattern)
              evidence == Evidence(text[1])
              hex == Join(" ", HexPairs(ins.bytes, 1))
              result1 == IF hit1
                         THEN [result EXCEPT !.first = Some(evidence.ret),
                                             !.first_hex = Some(hex)]
                         ELSE result
              result2 == IF hit2
                         THEN [result1 EXCEPT !.second = Some(evidence.ret),
                                              !.second_hex = Some(hex)]
                         ELSE result1
          IN IF (hit1 \/ hit2) /\ IsRaised(evidence) THEN evidence
             ELSE scan_instructions(rest, first_pattern, second_pattern,
                                    text, result2)

\* the dict that get_wrapper_smali returns for an imported parent: {}
EmptyDict == [field \in {} |-> None]

\* RizinImp.get_wrapper_smali
get_wrapper_smali(parent_method, first_method, second_method) ==
    LET cache == parent_method.cache
        result == [first |-> None, first_hex |-> None,
                   second |-> None, second_hex |-> None]
    IN IF cache.is_imported THEN Ret(EmptyDict)
       ELSE scan_instructions(pdfj_ops(cache.dexindex, cache.address),
                              search_pattern(first_method), search_pattern(second_method),
                              None, result)

---------------------------------------------------------------------------
(* The facade as a state machine: any sequence of at most MaxCalls queries *)
(* on one RizinImp object.                                                 *)

MaxCalls == 2

\* the MethodObjects that the tables of the package hold
KnownMethods ==
    UNION {{ParsedMethods(isj(i), i)[k] : k \in DOMAIN ParsedMethods(isj(i), i)} :
              i \in DexIndices}

CustomMethods == {m \in KnownMethods : ~m.cache.is_imported}

\* (class_name, method_name, descriptor) arguments of find_method; ".*" is
\* the default of each parameter
FindArguments ==
    {<<"La/B;", "get", "(La/B; I)I">>,
     <<"La/B;", "", "">>,
     <<"La/B;", ".*", ".*">>,
     <<"Lc/D;", "hit", "()V">>,
     <<"Ljava/lang/String;", "trim", "()Ljava/lang/String;">>,
     <<"Lx/Y;", "", "">>,
     <<".*", ".*", ".*">>}

\* the parents of get_wrapper_smali: the methods with instructions, one
\* without, and an imported one
WrapperParents ==
    {m \in KnownMethods : m.name \in {"run", "get", "put", "go", "hit"}
                             \/ <<m.cache.dexindex, m.cache.address>> \in {<<1, 56>>, <<0, 64>>}}

\* the first target of get_wrapper_smali
FirstTargets ==
    {m \in KnownMethods : m.name \in {"run", "get", "put", "hit"}
                             \/ <<m.cache.dexindex, m.cache.address>> = <<0, 64>>}

\* the second target of get_wrapper_smali
SecondTargets == {m \in KnownMethods : m.name \in {"go", "put"}}

\* rz.cmdj("izzj"): the strings of a Dex file
izzj(dexindex) ==
    IF dexindex = 0 THEN <<[string |-> "hello"], [string |-> "http://x"]>>
    ELSE IF dexindex = 1 THEN <<[string |-> "hello"], [string |-> "key"]>>
    ELSE <<>>

ClassInfo(classname, super) == [classname |-> classname, super |-> super]

\* rz.cmdj("icj"): the classes of a Dex file
icj(dexindex) ==
    IF dexindex = 0 THEN
        <<ClassInfo("La/A;", "Ljava/lang/Object;"), ClassInfo("La/B;", "La/A;")>>
    ELSE IF dexindex = 1 THEN
        <<ClassInfo("Lc/C;", "La/A;"), ClassInfo("Lc/D;", "Lc/C;")>>
    ELSE <<>>

\* the loop of RizinImp.get_strings from dex_index on
RECURSIVE get_strings(_, _)
get_strings(dex_index, strings) ==
    IF dex_index >= _number_of_dex THEN strings
    ELSE get_strings(dex_index + 1,
                     strings \cup {izzj(dex_index)[i].string : i \in DOMAIN izzj(dex_index)})

\* hierarchy_dict[key].add(value) on a defaultdict(set)
DictAdd(hierarchy_dict, key, value) ==
    [k \in DOMAIN hierarchy_dict \cup {key} |->
        (IF k \in DOMAIN hierarchy_dict THEN hierarchy_dict[k] ELSE {})
            \cup (IF k = key THEN {value} ELSE {})]

\* the inner loop of superclass_relationships (by_super FALSE) and of
\* subclass_relationships (by_super TRUE)
RECURSIVE add_classes(_, _, _)
add_classes(class_info_list, hierarchy_dict, by_super) ==
    IF class_info_list = <<>> THEN hierarchy_dict
    ELSE LET class_info == Head(class_info_list)
         IN add_classes(Tail(class_info_list),
                        IF by_super
                        THEN DictAdd(hierarchy_dict, class_info.super, class_info.classname)
                        ELSE DictAdd(hierarchy_dict, class_info.classname, class_info.super),
                        by_super)

\* the outer loop of superclass_relationships / subclass_relationships
RECURSIVE class_relationships(_, _, _)
class_relationships(dex_index, hierarchy_dict, by_super) ==
    IF dex_index >= _number_of_dex THEN hierarchy_dict
    ELSE class_relationships(dex_index + 1,
                             add_classes(icj(dex_index), hierarchy_dict, by_super),
                             by_super)

Init ==
    /\ input = [op |-> "__init__"]
    /\ output = Pending
    /\ phase = "ready"
    /\ method_set = {}
    /\ NewFacade

\* range(self._number_of_dex)
DexList == [i \in 1.._number_of_dex |-> i - 1]

\* the Dex indices that the commands of an operation ask _get_rz for, one
\* call of _get_rz before each command
SessionCalls(cmds) == [i \in DOMAIN cmds |-> cmds[i].session]

\* the Dex indices that the commands call rzpipe.open for
OpenCalls(cmds) ==
    LET opens == SelectSeq(cmds, LAMBDA command : command.cmd = "open")
    IN [i \in DOMAIN opens |-> opens[i].session]

\* the commands that a step of the facade issues, each after a call of
\* _get_rz, and the keys it asks the lru_caches of _get_methods_classified,
\* upperfunc and lowerfunc for
Issued(cmds, dexindices, upper_keys, lower_keys) ==
    /\ commands' = WithSessions(cmds, lru_order._get_rz)
    /\ lru_order' =
          [_get_rz |-> lru_cache_calls(lru_order._get_rz, SessionCalls(cmds)),
           _get_methods_classified |->
               lru_cache_calls(lru_order._get_methods_classified, dexindices),
           upperfunc |-> lru_cache_calls(lru_order.upperfunc, upper_keys),
           lowerfunc |-> lru_cache_calls(lru_order.lowerfunc, lower_keys)]
    /\ rz_cache' = LruKeys(lru_order'._get_rz) \cap DexIndices
    /\ open_calls' = open_calls \o OpenCalls(commands')
    /\ UNCHANGED <<phase, method_set, other_calls, raceVars, agentVars>>

\* what every query does besides its own effect; a generator that is
\* suspended stays as it is
Called(cmds, dexindices, upper_keys, lower_keys) ==
    /\ calls' = calls + 1
    /\ Issued(cmds, dexindices, upper_keys, lower_keys)
    /\ UNCHANGED generator

\* self._get_methods_classified(dexindex)
GetMethodsClassified ==
    \E dexindex \in DexIndices, fresh \in FreshTables :
        /\ calls < MaxCalls
        /\ LET order == lru_order._get_methods_classified
               table == _get_methods_classified(methods_classified_cache, fresh, dexindex)
               built == lru_cache_misses(order, <<dexindex>>)
           IN /\ input' = [op |-> "_get_methods_classified", dexindex |-> dexindex]
              /\ output' = Ret(table)
              /\ Called(BuildCommands(built), <<dexindex>>, <<>>, <<>>)
              /\ methods_classified_cache' =
                    lru_cache_store(methods_classified_cache, order, dexindex, table)
              /\ built_tables' = RecordBuilds(built_tables, built, fresh)
              /\ UNCHANGED <<all_methods_cache, upperfunc_cache, lowerfunc_cache,
                             superclass_relationships_cache, subclass_relationships_cache>>

\* the evaluation of self.all_methods inside a query: the memoized set, or
\* the loop over the tables of all Dex files, whose result is memoized
EvaluateAllMethods(fresh) ==
    LET hit == all_methods_cache # None
        order == lru_order._get_methods_classified
        built == IF hit THEN <<>> ELSE lru_cache_misses(order, DexList)
        methods == IF hit THEN all_methods_cache[1]
                   ELSE all_methods(0, methods_classified_cache, order, fresh, {})
    IN /\ all_methods_cache' = Some(methods)
       /\ Called(BuildCommands(built), IF hit THEN <<>> ELSE DexList, <<>>, <<>>)
       /\ methods_classified_cache' =
             IF hit THEN methods_classified_cache
             ELSE AllBuilt(0, methods_classified_cache, order, fresh)
       /\ built_tables' = RecordBuilds(built_tables, built, fresh)
       /\ UNCHANGED <<upperfunc_cache, lowerfunc_cache,
                      superclass_relationships_cache, subclass_relationships_cache>>

\* self.all_methods
AllMethods ==
    \E fresh \in FreshTables :
        /\ calls < MaxCalls
        /\ input' = [op |-> "all_methods"]
        /\ EvaluateAllMethods(fresh)
        /\ output' = Ret(all_methods_cache'[1])

\* the Dex files that find_method has asked for their table: those up to
\* the one that holds the method found, all when none is found
find_method_visited(found) ==
    IF found.result = None THEN DexList
    ELSE SubSeq(DexList, 1, found.result[1].cache.dexindex + 1)

\* self.find_method(class_name, method_name, descriptor)
FindMethod ==
    \E args \in FindArguments, fresh \in FreshTables :
        /\ calls < MaxCalls
        /\ LET order == lru_order._get_methods_classified
               found == find_method(0, methods_classified_cache, order, fresh,
                                    args[1], args[2], args[3])
               built == lru_cache_misses(order, find_method_visited(found))
           IN /\ input' = [op |-> "find_method", class_name |-> args[1],
                           method_name |-> args[2], descriptor |-> args[3]]
              /\ output' = Ret(found.result)
              /\ Called(BuildCommands(built), find_method_visited(found), <<>>, <<>>)
              /\ methods_classified_cache' = found.cache
              /\ built_tables' = RecordBuilds(built_tables, built, fresh)
              /\ UNCHANGED <<all_methods_cache, upperfunc_cache, lowerfunc_cache,
                             superclass_relationships_cache, subclass_relationships_cache>>

\* what upperfunc computes for each method when its result is not cached
UpperfuncRuns ==
    {[method_object |-> m, result |-> upperfunc(m), cmds |-> upperfunc_commands(m)] :
        m \in KnownMethods}

\* self.upperfunc(method_object)
Upperfunc ==
    \E run \in UpperfuncRuns :
        /\ calls < MaxCalls
        /\ LET key == MethodObject_key(run.method_object)
               hit == Cached(upperfunc_cache, key)
               result == IF hit THEN upperfunc_cache[key] ELSE run.result
           IN /\ input' = [op |-> "upperfunc", method_object |-> run.method_object]
              /\ output' = Ret(result)
              /\ Called(IF hit THEN <<>> ELSE run.cmds, <<>>, <<key>>, <<>>)
              /\ upperfunc_cache' =
                    lru_cache_entries(IF hit THEN upperfunc_cache
                                      ELSE upperfunc_cache @@ (key :> result),
                                      lru_order'.upperfunc)
              /\ UNCHANGED <<methods_classified_cache, all_methods_cache, lowerfunc_cache,
                             superclass_relationships_cache, subclass_relationships_cache,
                             built_tables>>

\* what lowerfunc computes for each method when its result is not cached
LowerfuncRuns ==
    {[method_object |-> m, result |-> lowerfunc(m), cmds |-> lowerfunc_commands(m)] :
        m \in CustomMethods}

\* self.lowerfunc(method_object)
Lowerfunc ==
    \E run \in LowerfuncRuns :
        /\ calls < MaxCalls
        /\ LET key == MethodObject_key(run.method_object)
               hit == Cached(lowerfunc_cache, key)
               result == IF hit THEN lowerfunc_cache[key] ELSE run.result
           IN /\ input' = [op |-> "lowerfunc", method_object |-> run.method_object]
              /\ output' = Ret(result)
              /\ Called(IF hit THEN <<>> ELSE run.cmds, <<>>, <<>>, <<key>>)
              /\ lowerfunc_cache' =
                    lru_cache_entries(IF hit THEN lowerfunc_cache
                                      ELSE lowerfunc_cache @@ (key :> result),
                                      lru_order'.lowerfunc)
              /\ UNCHANGED <<methods_classified_cache, all_methods_cache, upperfunc_cache,
                             superclass_relationships_cache, subclass_relationships_cache,
                             built_tables>>

\* what get_wrapper_smali computes for each choice of its arguments
WrapperRuns ==
    {[parent_method |-> p, first_method |-> f, second_method |-> s,
      result |-> get_wrapper_smali(p, f, s)] :
        p \in WrapperParents, f \in FirstTargets, s \in SecondTargets}

\* the state that a query without a memo of its own leaves alone
NothingMemoized ==
    UNCHANGED <<methods_classified_cache, all_methods_cache, upperfunc_cache,
                lowerfunc_cache, superclass_relationships_cache,
                subclass_relationships_cache, built_tables>>

\* self.get_wrapper_smali(parent_method, first_method, second_method)
GetWrapperSmali ==
    \E run \in WrapperRuns :
        /\ calls < MaxCalls
        /\ input' = [op |-> "get_wrapper_smali", parent_method |-> run.parent_method,
                     first_method |-> run.first_method,
                     second_method |-> run.second_method]
        /\ output' = run.result
        /\ Called(IF run.parent_method.cache.is_imported THEN <<>>
                  ELSE <<Command(run.parent_method.cache.dexindex, "pdfj",
                                 run.parent_method.cache.address)>>, <<>>, <<>>, <<>>)
        /\ NothingMemoized

\* self.custom_methods: the methods of all_methods that are not imported
custom_methods(methods) == {method \in methods : ~method.cache.is_imported}

\* self.custom_methods
GetCustomMethods ==
    \E fresh \in FreshTables :
        /\ calls < MaxCalls
        /\ input' = [op |-> "custom_methods"]
        /\ EvaluateAllMethods(fresh)
        /\ output' = Ret(custom_methods(all_methods_cache'[1]))

\* MethodObject.is_android_api.api_list
api_list ==
    {"Landroid/", "Lcom/google/android/", "Ldalvik/", "Ljava/", "Ljavax/", "Ljunit/",
     "Lorg/apache/", "Lorg/json/", "Lorg/w3c/", "Lorg/xml/", "Lorg/xmlpull/"}

\* MethodObject.is_android_api
is_android_api(method) == \E prefix \in api_list : StartsWith(method.class_name, prefix)

\* self.android_apis: the imported methods of all_methods in an API package
android_apis(methods) ==
    {method \in methods : is_android_api(method) /\ method.cache.is_imported}

\* self.android_apis
GetAndroidApis ==
    \E fresh \in FreshTables :
        /\ calls < MaxCalls
        /\ input' = [op |-> "android_apis"]
        /\ EvaluateAllMethods(fresh)
        /\ output' = Ret(android_apis(all_methods_cache'[1]))

\* a generator of get_method_bytecode: "created" while no line of the body
\* has run, "suspended" at the yield after it has delivered items, "closed"
\* after it has returned or raised
Generator(method_object, state, delivered) ==
    [method_object |-> method_object, state |-> state, delivered |-> delivered]

\* the methods whose bytecode is asked for: one with four instructions, one
\* whose second instruction has no text, one without instructions and an
\* imported one
BytecodeTargets ==
    {m \in KnownMethods :
        <<m.cache.dexindex, m.cache.address>> \in {<<0, 16>>, <<1, 16>>, <<1, 56>>, <<0, 64>>}}

\* self.get_method_bytecode(method_object): the call returns a generator
\* and runs no line of the body; the model keeps the generator returned
\* last, an earlier one is dropped where it stands
GetMethodBytecode ==
    \E method_object \in BytecodeTargets :
        /\ calls < MaxCalls
        /\ input' = [op |-> "get_method_bytecode", method_object |-> method_object]
        /\ output' = Ret(Generator(method_object, "created", 0))
        /\ generator' = Some(Generator(method_object, "created", 0))
        /\ calls' = calls + 1
        /\ Issued(<<>>, <<>>, <<>>, <<>>)
        /\ NothingMemoized

\* the instructions a generator iterates over: none for an imported method
instruct_flow_of(method_object) ==
    IF method_object.cache.is_imported THEN <<>>
    ELSE pdfj_ops(method_object.cache.dexindex, method_object.cache.address)

\* next(generator): the first one runs the body from its start, asks for
\* the session and issues pdfj unless the method is imported; every one
\* parses the next instruction and delivers it, or raises what _parse_smali
\* raised, or raises StopIteration at the end of the instructions and on a
\* closed generator.  Other operations can run between two of them.
NextBytecode ==
    /\ generator # None
    /\ LET g == generator[1]
           cache == g.method_object.cache
           ends == g.state = "closed" \/ g.delivered >= Len(instruct_flow_of(g.method_object))
           bytecode == _parse_smali(instruct_flow_of(g.method_object)[g.delivered + 1].disasm)
       IN /\ input' = [op |-> "next", method_object |-> g.method_object]
          /\ output' = IF ends THEN Raised("StopIteration")
                        ELSE IF IsRaised(bytecode) THEN bytecode
                        ELSE Ret(bytecode.ret)
          /\ generator' = IF ends \/ IsRaised(bytecode)
                           THEN Some(Generator(g.method_object, "closed", g.delivered))
                           ELSE Some(Generator(g.method_object, "suspended", g.delivered + 1))
          /\ Issued(IF g.state = "created" /\ ~cache.is_imported
                    THEN <<Command(cache.dexindex, "pdfj", cache.address)>>
                    ELSE <<>>, <<>>, <<>>, <<>>)
    /\ UNCHANGED calls
    /\ NothingMemoized

\* one command for every Dex file, in index order
ForEveryDex(cmd) == [i \in DOMAIN DexList |-> Command(DexList[i], cmd, 0)]

\* self.get_strings()
GetStrings ==
    /\ calls < MaxCalls
    /\ input' = [op |-> "get_strings"]
    /\ output' = Ret(get_strings(0, {}))
    /\ Called(ForEveryDex("izzj"), <<>>, <<>>, <<>>)
    /\ NothingMemoized

\* self.superclass_relationships
GetSuperclassRelationships ==
    /\ calls < MaxCalls
    /\ LET hit == superclass_relationships_cache # None
           hierarchy_dict == IF hit THEN superclass_relationships_cache[1]
                             ELSE class_relationships(0, <<>>, FALSE)
       IN /\ input' = [op |-> "superclass_relationships"]
          /\ output' = Ret(hierarchy_dict)
          /\ superclass_relationships_cache' = Some(hierarchy_dict)
          /\ Called(IF hit THEN <<>> ELSE ForEveryDex("icj"), <<>>, <<>>, <<>>)
          /\ UNCHANGED <<methods_classified_cache, all_methods_cache, upperfunc_cache,
                         lowerfunc_cache, subclass_relationships_cache, built_tables>>

\* self.subclass_relationships
GetSubclassRelationships ==
    /\ calls < MaxCalls
    /\ LET hit == subclass_relationships_cache # None
           hierarchy_dict == IF hit THEN subclass_relationships_cache[1]
                             ELSE class_relationships(0, <<>>, TRUE)
       IN /\ input' = [op |-> "subclass_relationships"]
          /\ output' = Ret(hierarchy_dict)
          /\ subclass_relationships_cache' = Some(hierarchy_dict)
          /\ Called(IF hit THEN <<>> ELSE ForEveryDex("icj"), <<>>, <<>>, <<>>)
          /\ UNCHANGED <<methods_classified_cache, all_methods_cache, upperfunc_cache,
                         lowerfunc_cache, superclass_relationships_cache, built_tables>>

Next ==
    \/ GetMethodsClassified
    \/ AllMethods
    \/ GetCustomMethods
    \/ GetAndroidApis
    \/ FindMethod
    \/ Upperfunc
    \/ Lowerfunc
    \/ GetWrapperSmali
    \/ GetMethodBytecode
    \/ NextBytecode
    \/ GetStrings
    \/ GetSuperclassRelationships
    \/ GetSubclassRelationships

Spec == Init /\ [][Next]_vars

\* The lru_caches belong to the class: their keys are (self, argument) and
\* the maxsize keys of each are shared by all RizinImp objects of the
\* process. The keys of the other objects are numbered in the order of
\* their first use and written as negative numbers where the argument is a
\* Dex index and as methods of a class of theirs where it is a
\* MethodObject.
OtherKeys(function, used, n) ==
    [i \in 1..n |->
        IF function \in {"upperfunc", "lowerfunc"}
        THEN <<"Lother/App;", NatToStr(used + i), "()V">>
        ELSE 0 - (used + i)]

\* the sessions that the other objects ask their own _get_rz for in calls
\* that are no hits: the session of the key for _get_rz and for
\* _get_methods_classified (self._get_rz(dexindex)), and the session of the
\* one Dex file that holds the methods for upperfunc and lowerfunc
\* (self._get_rz(cache.dexindex))
OtherSessions(function, keys) ==
    IF function \in {"upperfunc", "lowerfunc"} THEN <<0 - 1>> ELSE keys

\* the numbers of calls that the other objects make in one go: one, and as
\* many as fill a cache but for one key and to the last key
OtherCallCounts == {1, lru_maxsize - 1, lru_maxsize}

MaxBursts == 1

RECURSIVE SumOf(_)
SumOf(counts) == IF counts = <<>> THEN 0 ELSE Head(counts) + SumOf(Tail(counts))

\* other RizinImp objects call one of the memoized methods, each call with
\* a key not used before, between two steps of this facade; each call asks
\* _get_rz of the calling object for its session
OtherObjects ==
    \E function \in MemoizedMethods, n \in OtherCallCounts :
        /\ calls < MaxCalls
        /\ Len(other_calls) < MaxBursts
        /\ input' = [op |-> "other objects", function |-> function, calls |-> n]
        /\ output' = Pending
        /\ commands' = <<>>
        /\ other_calls' = Append(other_calls, n)
        /\ LET keys == OtherKeys(function, SumOf(other_calls), n)
           IN lru_order' =
                 [f \in MemoizedMethods |->
                     IF f = "_get_rz"
                     THEN lru_cache_calls(lru_order[f], OtherSessions(function, keys))
                     ELSE IF f = function THEN lru_cache_calls(lru_order[f], keys)
                     ELSE lru_order[f]]
        /\ rz_cache' = LruKeys(lru_order'._get_rz) \cap DexIndices
        /\ methods_classified_cache' =
              lru_cache_entries(methods_classified_cache,
                                lru_order'._get_methods_classified)
        /\ upperfunc_cache' = lru_cache_entries(upperfunc_cache, lru_order'.upperfunc)
        /\ lowerfunc_cache' = lru_cache_entries(lowerfunc_cache, lru_order'.lowerfunc)
        /\ UNCHANGED <<calls, open_calls, generator, all_methods_cache,
                       superclass_relationships_cache, subclass_relationships_cache,
                       built_tables, phase, method_set, raceVars, agentVars>>

NextShared == Next \/ OtherObjects

SpecShared == Init /\ [][NextShared]_vars

---------------------------------------------------------------------------
(* Properties of the facade                                                *)

\* the signatures (triples) of a collection of MethodObjects
SignaturesOf(list) == {MethodObject_key(list[i]) : i \in DOMAIN list}

\* two tables have the same class keys and the same signatures under each
SameTable(a, b) ==
    /\ DOMAIN a = DOMAIN b
    /\ \A k \in DOMAIN a : SignaturesOf(a[k]) = SignaturesOf(b[k])

\* C2: a table that _get_methods_classified returns for a Dex file has the
\* class keys, and under each key the signatures, of the table that the
\* first build for that Dex file returned, whatever queries ran in between.
C2_TableIsTheOneFirstBuilt ==
    (/\ input.op = "_get_methods_classified"
     /\ input.dexindex \in DOMAIN built_tables)
    => SameTable(output.ret, built_tables[input.dexindex])

\* the method that owns an address of one Dex file, asked of that Dex file
OwningMethod(dexindex, address) ==
    LET json_array == is_j_at(dexindex, address)
    IN IF json_array = <<>> THEN None
       ELSE _parse_method_from_isj_obj(json_array[1], dexindex)

\* the signatures of the methods that own the source addresses of the call
\* edges to a method, in the Dex file of that method
CallerSignatures(method_object) ==
    LET cache == method_object.cache
        xrefs == axtj(cache.dexindex, cache.address)
    IN {MethodObject_key(OwningMethod(cache.dexindex, xrefs[i].from)[1]) :
           i \in {j \in DOMAIN xrefs :
                     /\ xrefs[j].type = "CALL"
                     /\ "from" \in DOMAIN xrefs[j]
                     /\ OwningMethod(cache.dexindex, xrefs[j].from) # None}}

\* C8: upperfunc(m) returns exactly the methods that own the source address
\* of a CALL cross-reference to m's address; other edges and unresolved
\* sources contribute nothing; a method with one caller yields that caller.
C8_UpperfuncIsTheCallers ==
    input.op = "upperfunc"
    => {MethodObject_key(m) : m \in output.ret} = CallerSignatures(input.method_object)

\* the (callee signature, address) of every call edge of an instruction
\* stream whose target a method of that Dex file owns, in stream order
RECURSIVE CalleeEdges(_, _)
CalleeEdges(instruct_flow, dexindex) ==
    IF instruct_flow = <<>> THEN <<>>
    ELSE LET ins == Head(instruct_flow)
             resolved == SelectSeq(call_xrefs(ins),
                                   LAMBDA x : OwningMethod(dexindex, x.addr) # None)
         IN [i \in DOMAIN resolved |->
                <<MethodObject_key(OwningMethod(dexindex, resolved[i].addr)[1]), ins.offset>>]
                \o CalleeEdges(Tail(instruct_flow), dexindex)

\* C9: lowerfunc(m) holds one (callee, offset) pair for every CALL edge of
\* m's instructions whose target resolves, in instruction order and with
\* repetitions; each offset is the call site minus m's start address, and
\* is not negative.
C9_LowerfuncIsTheCallSites ==
    input.op = "lowerfunc"
    => LET cache == input.method_object.cache
           edges == CalleeEdges(pdfj_ops(cache.dexindex, cache.address), cache.dexindex)
       IN /\ Len(output.ret) = Len(edges)
          /\ \A i \in DOMAIN edges :
                /\ MethodObject_key(output.ret[i][1]) = edges[i][1]
                /\ output.ret[i][2] = edges[i][2] - cache.address
                /\ output.ret[i][2] >= 0

\* the instruction stream of parent holds an invoke instruction with a call
\* edge to the method
Invokes(parent_method, method) ==
    /\ parent_method.cache.dexindex = method.cache.dexindex
    /\ LET ops == pdfj_ops(parent_method.cache.dexindex, parent_method.cache.address)
       IN \E i \in DOMAIN ops :
             /\ StartsWith(ops[i].disasm, "invoke")
             /\ \E j \in DOMAIN call_xrefs(ops[i]) :
                   call_xrefs(ops[i])[j].addr = method.cache.address

\* C10: when parent invokes first_method and does not invoke second_method,
\* get_wrapper_smali returns a record with first and first_hex populated
\* and second and second_hex empty.
C10_FirstPopulatedSecondEmpty ==
    (/\ input.op = "get_wrapper_smali"
     /\ Invokes(input.parent_method, input.first_method)
     /\ ~Invokes(input.parent_method, input.second_method))
    => /\ ~IsRaised(output)
       /\ output.ret.first # None
       /\ output.ret.first_hex # None
       /\ output.ret.second = None
       /\ output.ret.second_hex = None


\* C11: for every parent method, imported or not, get_wrapper_smali returns
\* a record with the four fields first, first_hex, second and second_hex,
\* each populated or empty; a missing match is not an error and does not
\* change the shape of the record.
C11_RecordHasFourFields ==
    input.op = "get_wrapper_smali"
    => /\ ~IsRaised(output)
       /\ DOMAIN output.ret = {"first", "first_hex", "second", "second_hex"}


\* the signatures that some Dex file's table holds as not imported
DefinedSignatures ==
    {MethodObject_key(m) : m \in {k \in KnownMethods : ~k.cache.is_imported}}

\* C12: a signature is in custom_methods exactly when the table of at least
\* one Dex file holds it with is_imported false, even when another Dex file
\* lists the same signature as imported.
C12_CustomMethodsAreTheDefinedOnes ==
    input.op = "custom_methods"
    => {MethodObject_key(m) : m \in output.ret} = DefinedSignatures


\* a pattern left at its default ".*" matches any value; a given pattern
\* matches the value equal to it
PatternMatches(pattern, value) == pattern = ".*" \/ pattern = value

\* the methods of the tables that the patterns of a find_method call match
MatchingMethods(class_name, method_name, descriptor) ==
    {m \in KnownMethods :
        /\ PatternMatches(class_name, m.class_name)
        /\ PatternMatches(method_name, m.name)
        /\ PatternMatches(descriptor, m.descriptor)}

\* C13: find_method returns a method that its patterns match whenever the
\* table of some Dex file holds one, an omitted pattern matching any value,
\* and returns None only when no method matches.
C13_FindMethodMatchesPatterns ==
    (/\ input.op = "find_method"
     /\ "" \notin {input.class_name, input.method_name, input.descriptor})
    => LET matching == MatchingMethods(input.class_name, input.method_name,
                                       input.descriptor)
       IN IF matching = {} THEN output.ret = None
          ELSE /\ output.ret # None
               /\ \E m \in matching : MethodObject_eq(m, output.ret[1])


\* the commands that query a session
IsQuery(command) == command.cmd \notin {"open", "aa"}

\* the Dex files that a session was opened for, now or ever before
Opened(calls_of_open) == {calls_of_open[i] : i \in DOMAIN calls_of_open}

\* C14: on every session of a Dex file, the first one and each one opened
\* anew after the cache dropped the one before, the analysis command "aa" has
\* completed before any other command is issued on it: the command that
\* follows an "open" is the "aa" of that Dex file, and a query goes to a Dex
\* file that a session was opened for, by this step or by an earlier one.
C14_AnalysedBeforeQueried ==
    [][\A i \in DOMAIN commands' :
          /\ commands'[i].cmd = "open"
                => /\ i < Len(commands')
                   /\ commands'[i + 1] = Command(commands'[i].session, "aa", 0)
          /\ commands'[i].cmd = "aa"
                => /\ i > 1
                   /\ commands'[i - 1] = Command(commands'[i].session, "open", 0)
          /\ IsQuery(commands'[i])
                => \/ commands'[i].session \in Opened(open_calls)
                   \/ \E j \in 1..(i - 1) :
                         commands'[j] = Command(commands'[i].session, "open", 0)]_vars

\* one operation has queried Dex file 1 on a session it opened and
\* analysed, and then Dex file 0 on a session that it had to open and
\* analyse anew, the call for Dex file 1 having pushed the earlier session
\* of Dex file 0 out of the cache
C14_Witness ==
    /\ open_calls = <<0, 1, 0>>
    /\ Len(commands) = 6
    /\ commands[1] = Command(1, "open", 0)
    /\ commands[2] = Command(1, "aa", 0)
    /\ IsQuery(commands[3]) /\ commands[3].session = 1
    /\ commands[4] = Command(0, "open", 0)
    /\ commands[5] = Command(0, "aa", 0)
    /\ IsQuery(commands[6]) /\ commands[6].session = 0

\* C15: the session of a Dex file is not opened at construction; it is
\* opened, and analysed, by the first operation of the facade that queries
\* it, at most once in the life of the facade, and every later operation
\* reuses it.  It holds while the facade is alone in the process (Spec); the
\* lru_cache of _get_rz belongs to the class, and under SpecShared the keys
\* of other objects push the session out, between two operations or in the
\* middle of one, so that it is opened again.
C15_SessionOpenedOnceOnFirstUse ==
    /\ rz_cache = {} /\ commands = <<>>
    /\ [](\A i, j \in DOMAIN open_calls : open_calls[i] = open_calls[j] => i = j)
    /\ [][calls' = calls + 1
          => /\ rz_cache \subseteq rz_cache'
             /\ \A i \in DOMAIN commands' :
                   commands'[i].cmd = "open"
                   => LET index == commands'[i].session
                      IN /\ \A j \in DOMAIN open_calls : open_calls[j] # index
                         /\ index \in rz_cache'
                         /\ i + 2 <= Len(commands')
                         /\ commands'[i + 1] = Command(index, "aa", 0)
                         /\ commands'[i + 2].session = index
                         /\ IsQuery(commands'[i + 2])
             /\ \A i \in DOMAIN commands' :
                   IsQuery(commands'[i]) => commands'[i].session \in rz_cache']_vars

---------------------------------------------------------------------------
(* Concurrent first use of a memoized method.  functools.lru_cache looks   *)
(* the key up, calls the wrapped method outside any lock when the key is   *)
(* missing, and on return stores the result unless the key has been added  *)
(* meanwhile; in either case the caller gets the result of its own call.   *)

NumCallers == 2

Callers == 1..NumCallers

\* a step of the lru_cache wrapper around a memoized method
WrapperStep(do, function, key) == [do |-> do, function |-> function, key |-> key]

\* a step that sends a command to the backend and waits for its answer
BackendStep(command) == [do |-> "command", command |-> command]

\* the steps of self._get_rz(index)
get_rz_steps(index) ==
    <<WrapperStep("lookup", "_get_rz", index),
      BackendStep(Command(index, "open", 0)),
      BackendStep(Command(index, "aa", 0)),
      WrapperStep("store", "_get_rz", index)>>

\* the steps of the queries of a method body, each on the session that
\* _get_rz hands out
RECURSIVE query_steps(_)
query_steps(cmds) ==
    IF cmds = <<>> THEN <<>>
    ELSE get_rz_steps(Head(cmds).session) \o <<BackendStep(Head(cmds))>>
            \o query_steps(Tail(cmds))

\* the queries that the body of a memoized method sends
body_commands(function, key) ==
    IF function = "_get_methods_classified" THEN <<Command(key, "isj", 0)>>
    ELSE IF function = "upperfunc" THEN upperfunc_commands(key)
    ELSE lowerfunc_commands(key)

\* the key that the lru_cache of a memoized method files an argument under
cache_key(function, key) ==
    IF function \in {"upperfunc", "lowerfunc"} THEN MethodObject_key(key) ELSE key

\* the steps of one call of a memoized method
call_steps(function, key) ==
    IF function = "_get_rz" THEN get_rz_steps(key)
    ELSE <<WrapperStep("lookup", function, cache_key(function, key))>>
            \o query_steps(body_commands(function, key))
            \o <<WrapperStep("store", function, cache_key(function, key))>>

\* the calls with a Dex index that callers race on
RacedIndexCalls ==
    {[function |-> f, key |-> i] :
        f \in {"_get_rz", "_get_methods_classified"}, i \in DexIndices}

\* the calls with a MethodObject that callers race on
RacedMethodCalls ==
    {[function |-> "upperfunc", key |-> m] : m \in KnownMethods}
      \cup {[function |-> "lowerfunc", key |-> m] : m \in CustomMethods}

InitRace ==
    /\ (input \in RacedIndexCalls \/ input \in RacedMethodCalls)
    /\ output = [c \in Callers |-> None]
    /\ phase = "racing"
    /\ method_set = {}
    /\ rz_cache = {}
    /\ methods_classified_cache = <<>>
    /\ all_methods_cache = None
    /\ upperfunc_cache = <<>>
    /\ lowerfunc_cache = <<>>
    /\ lru_order = NoKeys
    /\ open_calls = <<>>
    /\ generator = None
    /\ other_calls = <<>>
    /\ superclass_relationships_cache = None
    /\ subclass_relationships_cache = None
    /\ built_tables = <<>>
    /\ commands = <<>>
    /\ calls = 0
    /\ pc = [c \in Callers |-> 1]
    /\ local = [c \in Callers |-> None]
    /\ lru = None
    /\ objects = 0
    /\ messageHistory = <<>>
    /\ messages = <<>>
    /\ suggestions = [set |-> {}]

\* what a race leaves alone
RaceFrame ==
    UNCHANGED <<input, phase, method_set, all_methods_cache,
                superclass_relationships_cache, subclass_relationships_cache,
                calls, generator, other_calls, agentVars>>

\* the steps of the raced call
Steps == call_steps(input.function, input.key)

\* the step that a caller is at
StepOf(c) == Steps[pc[c]]

\* the caller is at a step of the given kind
At_(c, do) == pc[c] <= Len(Steps) /\ StepOf(c).do = do

\* the caller has returned from the raced call
Returned(c) == pc[c] > Len(Steps)

\* the lookup or the store is that of the raced call, not of a _get_rz
\* call inside it
Outermost(c) == pc[c] \in {1, Len(Steps)}

\* the lru_cache of a memoized method holds the key
Stored(function, key) ==
    IF function = "_get_rz" THEN key \in rz_cache
    ELSE IF function = "_get_methods_classified" THEN Cached(methods_classified_cache, key)
    ELSE IF function = "upperfunc" THEN Cached(upperfunc_cache, key)
    ELSE Cached(lowerfunc_cache, key)

\* the cache lookup of the lru_cache wrapper finds the key: the call
\* returns the cached object without running the method
CacheHit(c) ==
    /\ At_(c, "lookup")
    /\ Stored(StepOf(c).function, StepOf(c).key)
    /\ lru_order' = [lru_order EXCEPT
                        ![StepOf(c).function] = lru_cache_call(@, StepOf(c).key)]
    /\ IF Outermost(c)
       THEN /\ pc' = [pc EXCEPT ![c] = Len(Steps) + 1]
            /\ output' = [output EXCEPT ![c] = lru]
       ELSE /\ pc' = [pc EXCEPT ![c] = @ + Len(get_rz_steps(0))]
            /\ UNCHANGED output
    /\ UNCHANGED <<local, lru, objects, rz_cache, methods_classified_cache,
                   upperfunc_cache, lowerfunc_cache, built_tables, open_calls, commands>>
    /\ RaceFrame

\* the cache lookup of the lru_cache wrapper misses: the method is called
CacheMiss(c) ==
    /\ At_(c, "lookup")
    /\ ~Stored(StepOf(c).function, StepOf(c).key)
    /\ pc' = [pc EXCEPT ![c] = @ + 1]
    /\ UNCHANGED <<output, local, lru, objects, rz_cache, methods_classified_cache,
                   upperfunc_cache, lowerfunc_cache, built_tables, lru_order,
                   open_calls, commands>>
    /\ RaceFrame

\* the method sends a command and waits for the answer, other callers
\* running meanwhile; after the last command of the raced call the method
\* has made its result, a new object: a session, a table, or the set or
\* list of upperfunc / lowerfunc
Compute(c) ==
    /\ At_(c, "command")
    /\ commands' = Append(commands, StepOf(c).command)
    /\ open_calls' = open_calls \o OpenCalls(<<StepOf(c).command>>)
    /\ pc' = [pc EXCEPT ![c] = @ + 1]
    /\ IF pc[c] + 1 = Len(Steps)
       THEN /\ objects' = objects + 1
            /\ local' = [local EXCEPT ![c] = Some(objects + 1)]
       ELSE UNCHANGED <<objects, local>>
    /\ UNCHANGED <<output, lru, rz_cache, methods_classified_cache, upperfunc_cache,
                   lowerfunc_cache, built_tables, lru_order>>
    /\ RaceFrame

\* the result that a method returns to the wrapper
ResultOf(function, fresh) ==
    IF function = "_get_methods_classified" THEN fresh[input.key]
    ELSE IF function = "upperfunc" THEN upperfunc(input.key)
    ELSE lowerfunc(input.key)

\* back in the wrapper: the result is stored unless the key was added during
\* the call, and the caller's own result is returned
StoreAndReturn(c) ==
    \E fresh \in FreshTables :
        LET function == StepOf(c).function
            key == StepOf(c).key
            added == Stored(function, key)
            result == ResultOf(function, fresh)
        IN /\ At_(c, "store")
           /\ pc' = [pc EXCEPT ![c] = @ + 1]
           /\ lru_order' = IF added THEN lru_order
                           ELSE [lru_order EXCEPT ![function] = lru_cache_call(@, key)]
           /\ rz_cache' = IF function = "_get_rz"
                          THEN LruKeys(lru_order'._get_rz) \cap DexIndices
                          ELSE rz_cache
           /\ methods_classified_cache' =
                 IF function = "_get_methods_classified" /\ ~added
                 THEN methods_classified_cache @@ (key :> result)
                 ELSE methods_classified_cache
           /\ built_tables' =
                 IF function = "_get_methods_classified" /\ ~added
                 THEN built_tables @@ (key :> result)
                 ELSE built_tables
           /\ upperfunc_cache' =
                 IF function = "upperfunc" /\ ~added
                 THEN upperfunc_cache @@ (key :> result)
                 ELSE upperfunc_cache
           /\ lowerfunc_cache' =
                 IF function = "lowerfunc" /\ ~added
                 THEN lowerfunc_cache @@ (key :> result)
                 ELSE lowerfunc_cache
           /\ IF Outermost(c)
              THEN /\ lru' = IF lru = None THEN local[c] ELSE lru
                   /\ output' = [output EXCEPT ![c] = local[c]]
              ELSE UNCHANGED <<lru, output>>
           /\ UNCHANGED <<local, objects, open_calls, commands>>
           /\ RaceFrame

NextRace ==
    \E c \in Callers :
        \/ CacheHit(c)
        \/ CacheMiss(c)
        \/ Compute(c)
        \/ StoreAndReturn(c)

SpecRace == InitRace /\ [][NextRace]_vars

\* C16: when callers race on the first request for one memoized result,
\* every caller that has returned holds the one cached object: no caller is
\* handed a second session or table that is not the cached one.
C16_RaceConvergesOnTheCachedResult ==
    \A c \in Callers : Returned(c) => output[c] = lru

---------------------------------------------------------------------------
(* Queries that aggregate over the Dex files, on a facade some of whose    *)
(* Dex files cannot be opened or analysed: _get_rz raises for them.        *)

\* the exception that _get_rz lets through when rzpipe.open or "aa" fails
SessionError(stage) == Raised(IF stage = "open" THEN "rzpipe.open" ELSE "aa")

\* an aggregating query on a new facade: it asks _get_rz for the Dex files
\* in index order, visited being those its loop reaches, and there is no
\* handler between _get_rz and the caller of the query
Aggregate(visited, failure, result) ==
    IF visited \cap failure.broken # {} THEN SessionError(failure.stage) ELSE Ret(result)

AggregateQueries ==
    {[op |-> "all_methods"], [op |-> "get_strings"],
     [op |-> "superclass_relationships"], [op |-> "subclass_relationships"]}
        \cup {[op |-> "find_method", class_name |-> a[1], method_name |-> a[2],
               descriptor |-> a[3]] : a \in FindArguments}

Failures == [broken : SUBSET DexIndices, stage : {"open", "aa"}]

InitFailure ==
    /\ input \in [query : AggregateQueries, failure : Failures]
    /\ output = Pending
    /\ phase = "called"
    /\ method_set = {}
    /\ NewFacade

\* what one aggregating query gives on a new facade with the given failure
AggregateResult(query, failure, fresh) ==
    IF query.op = "all_methods"
    THEN Aggregate(DexIndices, failure, all_methods(0, <<>>, <<>>, fresh, {}))
    ELSE IF query.op = "get_strings"
    THEN Aggregate(DexIndices, failure, get_strings(0, {}))
    ELSE IF query.op = "superclass_relationships"
    THEN Aggregate(DexIndices, failure, class_relationships(0, <<>>, FALSE))
    ELSE IF query.op = "subclass_relationships"
    THEN Aggregate(DexIndices, failure, class_relationships(0, <<>>, TRUE))
    ELSE LET found == find_method(0, <<>>, <<>>, fresh, query.class_name, query.method_name,
                                  query.descriptor)
         IN Aggregate(DOMAIN found.cache, failure, found.result)

\* the Dex files that an aggregating query asks _get_rz for, in the order
\* of its loop, when no session fails
AggregateVisited(query, fresh) ==
    IF query.op = "find_method"
    THEN find_method_visited(find_method(0, <<>>, <<>>, fresh, query.class_name,
                                         query.method_name, query.descriptor))
    ELSE DexList

\* the Dex files of the loop before the first one whose session fails
Reached(visited, failure) ==
    LET broken_at == {i \in DOMAIN visited : visited[i] \in failure.broken}
    IN IF broken_at = {} THEN visited
       ELSE SubSeq(visited, 1, (CHOOSE i \in broken_at : \A j \in broken_at : i <= j) - 1)

\* what _get_rz does on the backend for the Dex file that ends the loop:
\* rzpipe.open raises, or it returns and "aa" raises
FailedSession(visited, reached, failure) ==
    IF Len(reached) = Len(visited) THEN <<>>
    ELSE LET index == visited[Len(reached) + 1]
         IN IF failure.stage = "open" THEN <<Command(index, "open", 0)>>
            ELSE <<Command(index, "open", 0), Command(index, "aa", 0)>>

\* the query that each aggregating operation sends to a session
AggregateCommand(query) ==
    IF query.op \in {"all_methods", "find_method"} THEN "isj"
    ELSE IF query.op = "get_strings" THEN "izzj"
    ELSE "icj"

\* the tables that the operation leaves memoized when no session fails
AggregateTables(query, fresh) ==
    IF query.op = "all_methods" THEN AllBuilt(0, <<>>, <<>>, fresh)
    ELSE IF query.op = "find_method"
    THEN find_method(0, <<>>, <<>>, fresh, query.class_name, query.method_name,
                     query.descriptor).cache
    ELSE <<>>

\* an aggregating query on a new facade: what it returns or raises, and what
\* it leaves behind: the sessions and tables of the Dex files before the
\* one that fails stay memoized, the cached_property stores nothing when
\* its method raises
AggregateCall ==
    \E fresh \in FreshTables :
        LET query == input.query
            failure == input.failure
            visited == AggregateVisited(query, fresh)
            reached == Reached(visited, failure)
            tables == AggregateTables(query, fresh)
            returns == Len(reached) = Len(visited)
        IN /\ phase = "called"
           /\ output' = AggregateResult(query, failure, fresh)
           /\ phase' = "returned"
           /\ calls' = calls + 1
           /\ commands' =
                 WithSessions([i \in DOMAIN reached |->
                                  Command(reached[i], AggregateCommand(query), 0)], <<>>)
                   \o FailedSession(visited, reached, failure)
           /\ open_calls' = open_calls \o OpenCalls(commands')
           /\ lru_order' =
                 [lru_order EXCEPT
                     !._get_rz = lru_cache_calls(@, reached),
                     !._get_methods_classified =
                         IF tables = <<>> THEN @ ELSE lru_cache_calls(@, reached)]
           /\ rz_cache' = LruKeys(lru_order'._get_rz) \cap DexIndices
           /\ methods_classified_cache' =
                 [i \in DOMAIN tables \cap LruKeys(reached) |-> tables[i]]
           /\ built_tables' = [i \in DOMAIN tables \cap LruKeys(reached) |-> fresh[i]]
           /\ all_methods_cache' =
                 IF query.op = "all_methods" /\ returns THEN Some(output'.ret) ELSE None
           /\ superclass_relationships_cache' =
                 IF query.op = "superclass_relationships" /\ returns
                 THEN Some(output'.ret) ELSE None
           /\ subclass_relationships_cache' =
                 IF query.op = "subclass_relationships" /\ returns
                 THEN Some(output'.ret) ELSE None
           /\ UNCHANGED <<input, method_set, upperfunc_cache, lowerfunc_cache,
                          generator, other_calls, raceVars, agentVars>>

NextFailure == AggregateCall

SpecFailure == InitFailure /\ [][NextFailure]_vars

\* the Dex files that can be opened and analysed
Healthy == DexIndices \ input.failure.broken

\* C17: when a Dex file cannot be opened or analysed, the aggregating
\* queries still return what the other Dex files contribute: all_methods
\* their signatures, get_strings their strings, the class relationships
\* their classes, and find_method a method of theirs that matches.
C17_OtherDexFilesStillAnswer ==
    phase = "returned"
    => /\ ~IsRaised(output)
       /\ input.query.op = "all_methods"
             => {MethodObject_key(m) : m \in output.ret}
                    = {MethodObject_key(m) :
                          m \in {k \in KnownMethods : k.cache.dexindex \in Healthy}}
       /\ input.query.op = "get_strings"
             => output.ret = UNION {{izzj(i)[j].string : j \in DOMAIN izzj(i)} : i \in Healthy}
       /\ input.query.op = "superclass_relationships"
             => DOMAIN output.ret
                    = UNION {{icj(i)[j].classname : j \in DOMAIN icj(i)} : i \in Healthy}
       /\ input.query.op = "subclass_relationships"
             => DOMAIN output.ret
                    = UNION {{icj(i)[j].super : j \in DOMAIN icj(i)} : i \in Healthy}
       /\ (/\ input.query.op = "find_method"
           /\ \E m \in KnownMethods :
                 /\ m.cache.dexindex \in Healthy
                 /\ MethodObject_key(m) = <<input.query.class_name,
                                            input.query.method_name,
                                            input.query.descriptor>>)
             => output.ret # None

---------------------------------------------------------------------------
(* Facade operations whose backend query is answered with an empty or a    *)
(* null JSON value: rz.cmdj returns None, [] or {}.                        *)

\* what rz.cmdj returns for an unparsable, an empty-array and an
\* empty-object response
EmptyResponses == {"None", "[]", "{}"}

\* "for x in response": None is not iterable, [] and {} have no elements
Iterate(response) == IF response = "None" THEN Raised("TypeError") ELSE Ret(<<>>)

\* response["ops"]
SubscriptOps(response) == IF response = "{}" THEN Raised("KeyError") ELSE Raised("TypeError")

\* "if json_array:" in _get_method_by_address: all three are falsy
Truthy(response) == response \notin EmptyResponses

\* the operations with the query whose response is empty
QueriesOf ==
    {<<"_get_methods_classified", "isj">>, <<"_get_method_by_address", "is.j">>,
     <<"upperfunc", "axtj">>, <<"upperfunc", "is.j">>, <<"lowerfunc", "pdfj">>,
     <<"lowerfunc", "is.j">>, <<"get_method_bytecode", "pdfj">>,
     <<"get_wrapper_smali", "pdfj">>, <<"get_strings", "izzj">>}

EmptyResponseInputs ==
    {[op |-> q[1], query |-> q[2], response |-> r, method |-> m] :
        q \in QueriesOf, r \in EmptyResponses, m \in KnownMethods}

\* the operation on a new facade when the backend gives the response to
\* every query of that kind and answers the other queries as usual;
\* get_method_bytecode stands for list(self.get_method_bytecode(method)),
\* whose generator is resumed once here: it raises at the subscript of the
\* response, or ends at once for an imported method
WithResponse(op, query, response, method) ==
    IF op = "_get_methods_classified"
    THEN IF IsRaised(Iterate(response)) THEN Iterate(response) ELSE Ret(<<>>)
    ELSE IF op = "_get_method_by_address"
    THEN IF Truthy(response) THEN Ret(_get_method_by_address(method.cache.address))
         ELSE Ret(None)
    ELSE IF op = "upperfunc"
    THEN IF query = "axtj" /\ IsRaised(Iterate(response)) THEN Iterate(response) ELSE Ret({})
    ELSE IF op = "lowerfunc"
    THEN IF query = "pdfj" THEN SubscriptOps(response) ELSE Ret(<<>>)
    ELSE IF op = "get_method_bytecode"
    THEN IF method.cache.is_imported THEN Ret(<<>>) ELSE SubscriptOps(response)
    ELSE IF op = "get_wrapper_smali"
    THEN IF method.cache.is_imported THEN Ret(EmptyDict) ELSE SubscriptOps(response)
    ELSE IF IsRaised(Iterate(response)) THEN Iterate(response) ELSE Ret({})

InitResponse ==
    /\ input \in EmptyResponseInputs
    /\ output = Pending
    /\ phase = "called"
    /\ method_set = {}
    /\ NewFacade

\* the queries that the operation sends before it returns or raises
ResponseCommands(op, query, response, method) ==
    LET cache == method.cache
    IN IF op = "_get_methods_classified" THEN <<Command(cache.dexindex, "isj", 0)>>
       ELSE IF op = "_get_method_by_address" THEN <<Command(0, "is.j", cache.address)>>
       ELSE IF op = "upperfunc"
       THEN IF query = "axtj" THEN <<Command(cache.dexindex, "axtj", cache.address)>>
            ELSE upperfunc_commands(method)
       ELSE IF op = "lowerfunc"
       THEN IF query = "pdfj" THEN <<Command(cache.dexindex, "pdfj", cache.address)>>
            ELSE lowerfunc_commands(method)
       ELSE IF op \in {"get_method_bytecode", "get_wrapper_smali"}
       THEN IF cache.is_imported THEN <<>>
            ELSE <<Command(cache.dexindex, "pdfj", cache.address)>>
       ELSE IF response = "None" THEN <<Command(0, "izzj", 0)>>
       ELSE ForEveryDex("izzj")

\* the operation called on a new facade: what it returns or raises, and what
\* it leaves behind: the sessions it asked for stay memoized, and so does
\* the result of a memoized method that returns
ResponseCall ==
    LET op == input.op
        key == IF op = "_get_methods_classified" THEN input.method.cache.dexindex
               ELSE MethodObject_key(input.method)
    IN /\ phase = "called"
       /\ output' = WithResponse(op, input.query, input.response, input.method)
       /\ phase' = "returned"
       /\ calls' = calls + 1
       /\ commands' = WithSessions(ResponseCommands(op, input.query, input.response,
                                                    input.method), <<>>)
       /\ open_calls' = open_calls \o OpenCalls(commands')
       /\ lru_order' =
             [_get_rz |-> lru_cache_calls(lru_order._get_rz,
                              SessionCalls(ResponseCommands(op, input.query,
                                                            input.response, input.method))),
              _get_methods_classified |->
                  IF op = "_get_methods_classified" /\ ~IsRaised(output')
                  THEN <<key>> ELSE <<>>,
              upperfunc |-> IF op = "upperfunc" /\ ~IsRaised(output') THEN <<key>> ELSE <<>>,
              lowerfunc |-> IF op = "lowerfunc" /\ ~IsRaised(output') THEN <<key>> ELSE <<>>]
       /\ rz_cache' = LruKeys(lru_order'._get_rz) \cap DexIndices
       /\ methods_classified_cache' =
             [i \in LruKeys(lru_order'._get_methods_classified) |-> output'.ret]
       /\ built_tables' = methods_classified_cache'
       /\ upperfunc_cache' = [k \in LruKeys(lru_order'.upperfunc) |-> output'.ret]
       /\ lowerfunc_cache' = [k \in LruKeys(lru_order'.lowerfunc) |-> output'.ret]
       /\ UNCHANGED <<input, method_set, all_methods_cache, superclass_relationships_cache,
                      subclass_relationships_cache, generator, other_calls, raceVars, agentVars>>

NextResponse == ResponseCall

SpecResponse == InitResponse /\ [][NextResponse]_vars

\* C18: an empty or null response to isj, is.j, axtj, pdfj or izzj never
\* makes the operation that issued the query raise.
C18_EmptyResponseIsRecoverable == phase = "returned" => ~IsRaised(output)

---------------------------------------------------------------------------
(* The Method Table built from symbol listings that hold damaged records.  *)

MaxListing == 3

\* records with the documented fields: two that demangle to the same
\* triple at different addresses, two of other signatures, one for each
\* cause of rejection, and the clone import
ListingRecords ==
    {Symbol("METH", "get(La/B;I)I", "get", "sym.a.B_get", FALSE, 16, 8),
     Symbol("FUNC", "get(La/B;I)I", "get", "sym.a.B_get", FALSE, 32, 8),
     Symbol("METH", "int get(a.B, String[])", "get", "sym.a.B_get", FALSE, 40, 8),
     Symbol("FUNC", "get(La/B;I)I", "get", "sym.imp.c.D_get", TRUE, 48, 8),
     Symbol("OBJ", "get(La/B;I)I", "get", "sym.a.B_get", FALSE, 56, 8),
     Symbol("METH", "get", "get", "sym.a.B_get", FALSE, 64, 8),
     Symbol("METH", "get(int)", "get", "sym.a.B_get", FALSE, 72, 8),
     Symbol("METH", "get(La/B;I)I", "get", "sym.a.B.1", FALSE, 80, 8),
     Symbol("FUNC", "imp.clone()Ljava/lang/Object;", "clone", "sym.imp.clone", TRUE, 0, 0)}

Listings == UNION {[1..n -> ListingRecords] : n \in 0..MaxListing}

InitTable ==
    /\ input \in Listings
    /\ output = Pending
    /\ phase = "called"
    /\ method_set = {}
    /\ NewFacade

\* self._get_methods_classified(0) on a new facade whose session answers
\* isj with the listing: the session is opened and analysed, the two loops
\* build the table, and the table is memoized
BuildTable ==
    \E table \in TablesOf(input, 0) :
        /\ phase = "called"
        /\ output' = Ret(table)
        /\ phase' = "returned"
        /\ calls' = calls + 1
        /\ commands' = WithSessions(<<Command(0, "isj", 0)>>, lru_order._get_rz)
        /\ open_calls' = open_calls \o OpenCalls(commands')
        /\ lru_order' = [lru_order EXCEPT
                            !._get_rz = lru_cache_call(@, 0),
                            !._get_methods_classified = lru_cache_call(@, 0)]
        /\ rz_cache' = LruKeys(lru_order'._get_rz) \cap DexIndices
        /\ methods_classified_cache' = (0 :> table)
        /\ built_tables' = (0 :> table)
        /\ UNCHANGED <<input, method_set, all_methods_cache, upperfunc_cache,
                       lowerfunc_cache, superclass_relationships_cache,
                       subclass_relationships_cache, generator, other_calls, raceVars, agentVars>>

NextTable == BuildTable

SpecTable == InitTable /\ [][NextTable]_vars

\* one of the four causes of rejection applies to the record; the method
\* token is looked for in every flag name but that of the clone import
CannotBeDemangled(json_obj) ==
    \/ json_obj.type \notin {"FUNC", "METH"}
    \/ ~HasParenthesisedSignature(json_obj.name)
    \/ EndsWith(json_obj.name, ")") /\ ~HasReturnTypeToken(json_obj.name)
    \/ json_obj.flagname # "sym.imp.clone" /\ NameTokenStarts(json_obj.flagname) = {}

\* the signatures of the records of the listing that the demangler accepts
DemangledSignatures(listing) ==
    {MethodObject_key(_parse_method_from_isj_obj(listing[i], 0)[1]) :
        i \in {j \in DOMAIN listing : _parse_method_from_isj_obj(listing[j], 0) # None}}

\* C19: a record that cannot be demangled is rejected with null and the
\* build goes on: the table holds exactly the signatures of the records
\* that demangle, each in the bucket of its own class descriptor, and no
\* two entries of a bucket share a triple.
C19_DamagedRecordsAreSkipped ==
    phase = "returned"
    => /\ ~IsRaised(output)
       /\ \A i \in DOMAIN input :
             CannotBeDemangled(input[i]) => _parse_method_from_isj_obj(input[i], 0) = None
       /\ UNION {{MethodObject_key(output.ret[k][i]) : i \in DOMAIN output.ret[k]} :
                    k \in DOMAIN output.ret} = DemangledSignatures(input)
       /\ \A k \in DOMAIN output.ret :
             /\ \A i \in DOMAIN output.ret[k] : output.ret[k][i].class_name = k
             /\ \A i, j \in DOMAIN output.ret[k] :
                   i # j => MethodObject_key(output.ret[k][i]) # MethodObject_key(output.ret[k][j])

\* a listing of a damaged record followed by two records of one signature
\* has been built into a table of one bucket with one entry
C19_Witness ==
    /\ phase = "returned"
    /\ Len(input) = 3
    /\ input[1].flagname = "sym.a.B.1"
    /\ input[2].vaddr = 16
    /\ input[3].vaddr = 32
    /\ DOMAIN output.ret = {"La/B;"}
    /\ Len(output.ret["La/B;"]) = 1

---------------------------------------------------------------------------
(* quark.utils.tools.contains                                              *)

\* list.remove(item): the list without the first element equal to item
RECURSIVE list_remove(_, _)
list_remove(list, item) ==
    IF list = <<>> THEN <<>>
    ELSE IF Head(list) = item THEN Tail(list)
    ELSE <<Head(list)>> \o list_remove(Tail(list), item)

\* item in list
In(item, list) == \E i \in DOMAIN list : list[i] = item

\* for item in target_copy: if item not in subset_to_check:
\*     target_copy.remove(item)
\* the iterator holds a position in the list that the body shortens
RECURSIVE delete_missing(_, _, _)
delete_missing(target_copy, subset_to_check, position) ==
    IF position > Len(target_copy) THEN target_copy
    ELSE IF ~In(target_copy[position], subset_to_check)
    THEN delete_missing(list_remove(target_copy, target_copy[position]),
                        subset_to_check, position + 1)
    ELSE delete_missing(target_copy, subset_to_check, position + 1)

\* the search loops of contains (lines 50-55)
has_run(target_copy, subset_to_check) ==
    \E i \in 0..(Len(target_copy) - Len(subset_to_check)) :
        \A j \in 1..Len(subset_to_check) : target_copy[i + j] = subset_to_check[j]

\* contains: the value returned and target_list as the call leaves it
contains(subset_to_check, target_list) ==
    [result |-> has_run(delete_missing(target_list, subset_to_check, 1), subset_to_check),
     target_list |-> target_list]

MaxSubset == 2

MaxTarget == 4

ListElements == {"a", "b", "x"}

ContainsInputs ==
    [subset_to_check : UNION {[1..n -> ListElements] : n \in 0..MaxSubset},
     target_list : UNION {[1..n -> ListElements] : n \in 0..MaxTarget}]

InitContains ==
    /\ input \in ContainsInputs
    /\ output = Pending
    /\ phase = "called"
    /\ method_set = {}
    /\ NewFacade

ContainsCall ==
    /\ phase = "called"
    /\ output' = Ret(contains(input.subset_to_check, input.target_list))
    /\ phase' = "returned"
    /\ UNCHANGED <<input, method_set, facadeVars>>

NextContains == ContainsCall

SpecContains == InitContains /\ [][NextContains]_vars

\* target_list with every element that is not in subset_to_check deleted
Disregarding(target_list, subset_to_check) ==
    SelectSeq(target_list, LAMBDA item : In(item, subset_to_check))

\* C20: contains returns True exactly when target_list, with every element
\* that is not in subset_to_check deleted, holds subset_to_check as a
\* contiguous run, however many such elements lie between the matches;
\* target_list is left as it was.
C20_ContainsIgnoresOtherElements ==
    phase = "returned"
    => /\ output.ret.result
            = (\E i \in 0..Len(Disregarding(input.target_list, input.subset_to_check)) :
                 /\ i + Len(input.subset_to_check)
                        <= Len(Disregarding(input.target_list, input.subset_to_check))
                 /\ \A j \in 1..Len(input.subset_to_check) :
                       Disregarding(input.target_list, input.subset_to_check)[i + j]
                           = input.subset_to_check[j])
       /\ output.ret.target_list = input.target_list

---------------------------------------------------------------------------
(* Display names in source-level syntax.                                   *)

\* the display name reads '<ret> <name>(<a1>, ..., <an>)'
IsSourceLevelName(name) ==
    /\ EndsWith(name, ")")
    /\ Find(name, " ") > 1
    /\ Find(name, "(") > Find(name, " ") + 1

\* '(' + the converted argument types separated by one blank + ')' + the
\* converted return type
SourceLevelDescriptor(name) ==
    LET return_type == SubSeq(name, 1, Find(name, " ") - 1)
        inner == SubSeq(name, Find(name, "(") + 1, Len(name) - 1)
    IN "(" \o Join(" ", ConvertEach(Split(inner, ", "))) \o ")"
           \o _convert_type_to_type_signature(return_type)

\* C21: a record of kind FUNC or METH whose display name is in source-level
\* syntax and whose flag name holds a method token is demangled to the
\* descriptor made of its converted argument types and its converted return
\* type, whatever the length of the return type name.
C21_SourceLevelDescriptor ==
    (/\ phase = "returned"
     /\ input.type \in {"FUNC", "METH"}
     /\ IsSourceLevelName(input.name)
     /\ input.flagname # "sym.imp.clone"
     /\ NameTokenStarts(input.flagname) # {})
    => /\ output.ret # None
       /\ output.ret[1].descriptor = SourceLevelDescriptor(input.name)

---------------------------------------------------------------------------
(* The two range markers and lines without operands.                       *)

\* C22: a ranged register expression 'vA:vB' with A <= B is parsed, like
\* 'vA..vB', into the inclusive list vA, v(A+1), ..., vB.
C22_ColonRangeExpanded ==
    (phase = "returned" /\ input.shape = ":")
    => /\ ~IsRaised(output)
       /\ output.ret.registers =
              Some([i \in 1..(input.last - input.first + 1) |->
                        "v" \o IntToStr(input.first + i - 1)])

\* the line is a mnemonic alone or a mnemonic followed by blanks only
HasNoOperandText(line) ==
    /\ line # ""
    /\ At(line, 1) # " "
    /\ \A i \in 1..Len(line) : At(line, i) = " " => \A j \in i..Len(line) : At(line, j) = " "

\* the line up to its first blank
FirstWord(line) == IF Find(line, " ") = 0 THEN line ELSE SubSeq(line, 1, Find(line, " ") - 1)

\* C23: a line without operand text, be it a bare mnemonic or a mnemonic
\* followed by blanks, is parsed without raising into an instruction of
\* that mnemonic with no registers and no parameter.
C23_NoOperandsNoError ==
    (phase = "returned" /\ HasNoOperandText(input.line))
    => /\ ~IsRaised(output)
       /\ output.ret.mnemonic = FirstWord(input.line)
       /\ output.ret.registers \in {None, Some(<<>>)}
       /\ output.ret.parameter = None

---------------------------------------------------------------------------
(* The session that resolves the addresses of cross-references.            *)

\* the methods that an upperfunc or lowerfunc result holds
ResolvedMethods(op, result) ==
    IF op = "upperfunc" THEN result ELSE {result[i][1] : i \in DOMAIN result}

\* C24: the address resolutions that upperfunc and lowerfunc make for a
\* method of Dex file i are issued to the session of Dex file i, and every
\* method they resolve carries the index i.
C24_ResolvedInTheMethodsDex ==
    input.op \in {"upperfunc", "lowerfunc"}
    => /\ \A n \in DOMAIN commands :
             commands[n].cmd = "is.j" => commands[n].session = input.method_object.cache.dexindex
       /\ \A m \in ResolvedMethods(input.op, output.ret) :
             m.cache.dexindex = input.method_object.cache.dexindex

---------------------------------------------------------------------------
(* The instruction that wrapper evidence comes from.                       *)

\* the text of an invoke instruction without its trailing '; comment'
OwnText(ins) ==
    IF Contains(ins.disasm, ";") THEN SubSeq(ins.disasm, 1, RFind(ins.disasm, ";") - 1)
    ELSE ins.disasm

\* the evidence recorded for a target comes from one invoke instruction of
\* the parent whose own text holds the target's signature text
FromOneInstruction(parent_method, target, evidence, hex) ==
    LET ops == pdfj_ops(parent_method.cache.dexindex, parent_method.cache.address)
    IN \E i \in DOMAIN ops :
          /\ StartsWith(ops[i].disasm, "invoke")
          /\ Contains(ops[i].disasm, search_pattern(target))
          /\ evidence = Some(Evidence(OwnText(ops[i])).ret)
          /\ hex = Some(Join(" ", HexPairs(ops[i].bytes, 1)))

\* C25: get_wrapper_smali never fails on an invoke line without ';', and
\* the instruction and the hex bytes it records for a target both come from
\* one invoke instruction whose own text holds the target's signature text.
C25_EvidenceFromOwnInstruction ==
    (input.op = "get_wrapper_smali" /\ ~input.parent_method.cache.is_imported)
    => /\ ~IsRaised(output)
       /\ output.ret.first # None
             => FromOneInstruction(input.parent_method, input.first_method,
                                   output.ret.first, output.ret.first_hex)
       /\ output.ret.second # None
             => FromOneInstruction(input.parent_method, input.second_method,
                                   output.ret.second, output.ret.second_hex)

---------------------------------------------------------------------------
(* The recursion of _convert_type_to_type_signature, call by call: local   *)
(* holds the arguments of the calls that are open, the latest one last.    *)

\* the raw type takes one of the three recursive branches
IsArrayForm(raw_type) ==
    /\ raw_type # ""
    /\ (EndsWith(raw_type, "[]") \/ StartsWith(raw_type, "[") \/ Contains(raw_type, "..."))

\* mutant: the variadic branch keeps the ellipsis in the argument
recursive_argument_with_ellipsis(raw_type) ==
    IF EndsWith(raw_type, "[]") THEN SubSeq(raw_type, 1, Len(raw_type) - 2)
    ELSE IF StartsWith(raw_type, "[") THEN SubSeq(raw_type, 2, Len(raw_type))
    ELSE SubSeq(raw_type, 1, Find(raw_type, "...") + 2)

\* the argument of the recursive call: raw_type[:-2], raw_type[1:] or
\* raw_type[:index]
recursive_argument(raw_type) ==
    IF EndsWith(raw_type, "[]") THEN SubSeq(raw_type, 1, Len(raw_type) - 2)
    ELSE IF StartsWith(raw_type, "[") THEN SubSeq(raw_type, 2, Len(raw_type))
    ELSE SubSeq(raw_type, 1, Find(raw_type, "...") - 1)

\* "[" for every call that waits for the innermost one
RECURSIVE ArrayPrefix(_)
ArrayPrefix(n) == IF n = 0 THEN "" ELSE "[" \o ArrayPrefix(n - 1)

StepTokens == {"int", "String", "a", "[", "[]", "...", "."}

StepInputs == {None, Some("")} \cup {Some(s) : s \in TokenStrings(StepTokens, MaxTokens)}

InitSteps ==
    /\ input \in StepInputs
    /\ output = Pending
    /\ phase = "called"
    /\ method_set = {}
    /\ rz_cache = {}
    /\ methods_classified_cache = <<>>
    /\ all_methods_cache = None
    /\ upperfunc_cache = <<>>
    /\ lowerfunc_cache = <<>>
    /\ lru_order = NoKeys
    /\ open_calls = <<>>
    /\ generator = None
    /\ other_calls = <<>>
    /\ superclass_relationships_cache = None
    /\ subclass_relationships_cache = None
    /\ built_tables = <<>>
    /\ commands = <<>>
    /\ calls = 0
    /\ pc = <<>>
    /\ local = <<>>
    /\ lru = None
    /\ objects = 0
    /\ messageHistory = <<>>
    /\ messages = <<>>
    /\ suggestions = [set |-> {}]

StepsFrame ==
    UNCHANGED <<input, method_set, rz_cache, methods_classified_cache, all_methods_cache,
                upperfunc_cache, lowerfunc_cache, lru_order, open_calls, generator,
                other_calls,
                superclass_relationships_cache, subclass_relationships_cache,
                built_tables, commands, calls, pc, lru,
                objects, agentVars>>

\* the call with a null argument: "if not raw_type: return raw_type"
ConvertNull ==
    /\ phase = "called"
    /\ input = None
    /\ output' = Ret(None)
    /\ phase' = "returned"
    /\ UNCHANGED local
    /\ StepsFrame

\* the outermost call
ConvertEnter ==
    /\ phase = "called"
    /\ input # None
    /\ local = <<>>
    /\ local' = <<input[1]>>
    /\ UNCHANGED <<output, phase>>
    /\ StepsFrame

\* a recursive call from one of the three array branches
ConvertRecurse ==
    /\ phase = "called"
    /\ local # <<>>
    /\ IsArrayForm(local[Len(local)])
    /\ local' = Append(local, recursive_argument(local[Len(local)]))
    /\ UNCHANGED <<output, phase>>
    /\ StepsFrame

\* the innermost call returns from a branch without recursion, and every
\* waiting call puts its "[" in front
ConvertReturn ==
    /\ phase = "called"
    /\ local # <<>>
    /\ ~IsArrayForm(local[Len(local)])
    /\ output' = Ret(Some(ArrayPrefix(Len(local) - 1)
                          \o _convert_type_to_type_signature(local[Len(local)])))
    /\ phase' = "returned"
    /\ UNCHANGED local
    /\ StepsFrame

NextSteps == ConvertNull \/ ConvertEnter \/ ConvertRecurse \/ ConvertReturn

SpecSteps == InitSteps /\ [][NextSteps]_vars

\* C26: the converter terminates on every input without raising: every
\* recursive call is made on a strictly shorter string than the call that
\* makes it, so the depth is bounded by the length of the input; no call
\* raises; and an empty or null input is returned as it is.
C26_ConvertTerminates ==
    /\ \A i \in 1..(Len(local) - 1) : Len(local[i + 1]) < Len(local[i])
    /\ input # None => Len(local) <= Len(input[1]) + 1
    /\ phase = "returned"
          => /\ ~IsRaised(output)
             /\ input \in {None, Some("")} => output.ret = input
             /\ input # None => output.ret = Some(_convert_type_to_type_signature(input[1]))

\* a doubly nested array type has returned from three calls
C26_Witness ==
    /\ phase = "returned"
    /\ input = Some("[int[]")
    /\ local = <<"[int[]", "[int", "int">>
    /\ output = Ret(Some("[[I"))

\* the null input has been returned unchanged
C26_WitnessNull == phase = "returned" /\ input = None /\ output = Ret(None)

---------------------------------------------------------------------------
(* DetectionStepSuggestion: the workflow generate_suggestions ->           *)
(* checkSuggestions -> fill_invalid_suggestions -> END, with the answers   *)
(* of the LLM left open.                                                   *)

MaxTry == 2

\* self.__toolList: the titles loaded from the tool list
toolList == {"init Rule Object", "run Quark Analysis"}

\* the steps an answer of the LLM can name
AnswerSteps == toolList \cup {"get Caller Methods", "run Analysis"}

HumanMessage(prompt) == [type |-> "human", content |-> prompt]

AIMessage(steps) == [type |-> "ai", content |-> steps]

InitSuggestion ==
    /\ input = [op |-> "__init__"]
    /\ output = Pending
    /\ phase = "ready"
    /\ method_set = {}
    /\ NewFacade

AgentFrame ==
    UNCHANGED <<method_set, rz_cache, methods_classified_cache, all_methods_cache,
                upperfunc_cache, lowerfunc_cache, lru_order, open_calls, generator,
                other_calls,
                superclass_relationships_cache, subclass_relationships_cache,
                built_tables, commands, calls, raceVars>>

\* provideSuggestions: sets maxTry and invokes the workflow at its entry
\* point with a state that holds the step chain only
provideSuggestions ==
    \E maxTry \in 0..MaxTry :
        /\ phase = "ready"
        /\ input' = [op |-> "provideSuggestions",
                     stepChain |-> <<"init Rule Object">>, maxTry |-> maxTry]
        /\ phase' = "generate_suggestions"
        /\ messageHistory' = <<>>
        /\ messages' = <<>>
        /\ suggestions' = [set |-> {}]
        /\ UNCHANGED output
        /\ AgentFrame

\* node generate_suggestions up to the call of the LLM: messages is the
\* history of the state, the state's own list when the state has one and a
\* new list when it has none, and the prompt is appended to it
generateSuggestion ==
    LET prompt == IF Len(messageHistory) # 0
                  THEN HumanMessage("SUGGESTION_NOT_IN_LIST")
                  ELSE HumanMessage("ASK_SUGGESTION")
    IN /\ phase = "generate_suggestions"
       /\ messages' = messageHistory \o <<prompt>>
       /\ messageHistory' = IF Len(messageHistory) # 0
                            THEN messageHistory \o <<prompt>>
                            ELSE messageHistory
       /\ phase' = "invoke"
       /\ UNCHANGED <<input, output, suggestions>>
       /\ AgentFrame

\* the LLM, handed messages, answers: the answer is appended, and the node
\* returns the list as the history and the answer as the suggestions
invoke ==
    \E answer \in SUBSET AnswerSteps :
        /\ phase = "invoke"
        /\ messages' = messages \o <<AIMessage(answer)>>
        /\ messageHistory' = messages \o <<AIMessage(answer)>>
        /\ suggestions' = [set |-> answer]
        /\ phase' = "checkSuggestions"
        /\ UNCHANGED <<input, output>>
        /\ AgentFrame

\* the call of the LLM raises: the node, the workflow and provideSuggestions
\* raise, the prompt staying appended to the list
invokeRaises ==
    /\ phase = "invoke"
    /\ output' = Raised("Exception")
    /\ phase' = "raised"
    /\ UNCHANGED <<input, agentVars>>
    /\ AgentFrame

\* mutant: the retry limit is not looked at
checkSuggestions_without_limit(history, steps, maxTry) ==
    IF \A step \in steps : step \in toolList THEN "Valid" ELSE "Invalid"

\* checkSuggestions
checkSuggestions(history, steps, maxTry) ==
    LET isValid == \A step \in steps : step \in toolList
    IN IF Len(history) > maxTry * 2 \/ isValid THEN "Valid" ELSE "Invalid"

\* the conditional edge out of generate_suggestions
routeSuggestions ==
    /\ phase = "checkSuggestions"
    /\ phase' = IF checkSuggestions(messageHistory, suggestions.set, input.maxTry) = "Valid"
                THEN "fill_invalid_suggestions"
                ELSE "generate_suggestions"
    /\ UNCHANGED <<input, output, agentVars>>
    /\ AgentFrame

\* mutant: the suggestions are returned as the LLM gave them
keep_all_steps(steps) == steps

\* [step for step in rawSuggestions if step in self.__toolList]
valid_steps(steps) == {step \in steps : step \in toolList}

\* node fill_invalid_suggestions, the edge to END, and the return of
\* state["suggestions"] by provideSuggestions
fillInvalidSuggestions ==
    /\ phase = "fill_invalid_suggestions"
    /\ \E valid \in Orders(valid_steps(suggestions.set)) :
          /\ suggestions' = [list |-> valid]
          /\ output' = Ret(valid)
    /\ phase' = "END"
    /\ UNCHANGED <<input, messageHistory, messages>>
    /\ AgentFrame

NextSuggestion ==
    \/ provideSuggestions
    \/ generateSuggestion
    \/ invoke
    \/ invokeRaises
    \/ routeSuggestions
    \/ fillInvalidSuggestions

\* the workflow runs each node to its end and follows the edge out of it;
\* a call of the LLM ends, with an answer or with an exception
SpecSuggestion == InitSuggestion /\ [][NextSuggestion]_vars /\ WF_vars(NextSuggestion)

\* the number of LLM invocations made so far
Invocations == Cardinality({i \in DOMAIN messageHistory : messageHistory[i].type = "ai"})

\* the answer of the n-th invocation names a step that is not in the list
AnswerIsInvalid(n) == \E step \in messageHistory[2 * n].content : step \notin toolList

\* C27: whatever the LLM answered and whether or not the retry limit was
\* hit, every suggestion that provideSuggestions returns is in the tool list.
C27_OnlyListedStepsReturned ==
    phase = "END"
    => /\ ~IsRaised(output)
       /\ \A i \in DOMAIN output.ret : output.ret[i] \in toolList
       /\ \A i \in DOMAIN suggestions.list : suggestions.list[i] \in toolList

\* the retry limit was hit with an answer that names an unknown step, and
\* the listed step of that answer has been returned
C27_Witness ==
    /\ phase = "END"
    /\ input.maxTry = 1
    /\ Invocations = 2
    /\ messageHistory[4].content = {"run Quark Analysis", "run Analysis"}
    /\ output = Ret(<<"run Quark Analysis">>)


\* a call of the LLM has been started and has not returned an answer
InInvocation == phase \in {"invoke", "raised"}

\* every answer but the latest named an unknown step, each answered
\* invocation left two messages, the one that is under way or has raised has
\* added its prompt, there are at most maxTry + 1 invocations, and the
\* workflow has ended on an answer with an unknown step only at that limit
RevisedWithinLimit ==
    input.op = "provideSuggestions"
    => /\ ~InInvocation => Len(messageHistory) = 2 * Invocations
       /\ InInvocation
             => /\ Len(messages) = 2 * Invocations + 1
                /\ messageHistory = IF Invocations = 0 THEN <<>> ELSE messages
       /\ Invocations + (IF InInvocation THEN 1 ELSE 0) <= input.maxTry + 1
       /\ \A n \in 1..(Invocations - 1) : AnswerIsInvalid(n)
       /\ phase = "END"
             => /\ Invocations >= 1
                /\ AnswerIsInvalid(Invocations) => Invocations = input.maxTry + 1

\* C28: the workflow always terminates: generate_suggestions is run again
\* only after an answer that names a step outside the tool list, there are
\* never more than maxTry + 1 LLM invocations, of two messages each once
\* answered, after which the workflow ends even on an invalid answer, a
\* valid first answer ends it after one invocation, and a workflow that was
\* started reaches END or ends with the exception of the LLM call.
C28_WorkflowTerminates ==
    /\ [][/\ RevisedWithinLimit'
          /\ (phase = "checkSuggestions" /\ phase' = "generate_suggestions")
                => AnswerIsInvalid(Invocations)]_vars
    /\ (phase = "generate_suggestions") ~> (phase \in {"END", "raised"})

\* the workflow has ended at the retry limit on an answer that still names
\* an unknown step
C28_Witness ==
    /\ phase = "END"
    /\ input.maxTry = 2
    /\ Invocations = 3
    /\ Len(messageHistory) = 6
    /\ AnswerIsInvalid(3)

\* a valid first answer has ended the workflow after one invocation
C28_WitnessFirstValid ==
    /\ phase = "END"
    /\ input.maxTry = 2
    /\ Invocations = 1
    /\ output = Ret(<<"init Rule Object">>)


---------------------------------------------------------------------------
(* ShurikenImp: all_methods and custom_methods over the classes of the     *)
(* analysis, for an APK and for a single Dex file.                         *)

MaxClasses == 2
MaxMethods == 2

\* the name, the descriptor and the external flag a method record can hold
ShurikenMethods ==
    { [name |-> "run", descriptor |-> "()V", external |-> FALSE],
      [name |-> "hit", descriptor |-> "(II)V", external |-> FALSE],
      [name |-> "query", descriptor |-> "()V", external |-> TRUE] }

ShurikenClassNames == <<"La/A;", "Lb/B;", "Lc/C;">>

\* a hdvmmethodanalysis_t record: it names its class itself
hdvmmethodanalysis_t(class_name, method) ==
    [class_name |-> class_name, name |-> method.name,
     descriptor |-> method.descriptor, external |-> method.external]

\* the method records that can lie in the memory of the process
ShurikenRecords ==
    { hdvmmethodanalysis_t(ShurikenClassNames[c], method) :
        c \in DOMAIN ShurikenClassNames, method \in ShurikenMethods }

\* the method arrays a class analysis can hold: no method twice
ShurikenMethodArrays ==
    UNION { { methods \in [1..n -> ShurikenMethods] :
                \A a, b \in 1..n : methods[a] = methods[b] => a = b } : n \in 0..MaxMethods }

\* the analysis of an input: its classes in the order of their ids, the
\* records of a class naming that class
ShurikenAnalyses ==
    UNION { { [i \in 1..n |->
                 [class_name |-> ShurikenClassNames[i],
                  methods |-> [j \in DOMAIN arrays[i] |->
                                 hdvmmethodanalysis_t(ShurikenClassNames[i], arrays[i][j])]]] :
                arrays \in [1..n -> ShurikenMethodArrays] } : n \in 1..MaxClasses }

ShurikenInputs ==
    { [ret_type |-> ret_type, analysis |-> analysis, op |-> op] :
        ret_type \in {"APK", "DEX"}, analysis \in ShurikenAnalyses,
        op \in {"all_methods", "custom_methods"} }

\* _convert_to_method_object: the class name is the one of the record, and
\* the record is kept as cache
convert_to_method_object(methodAnalysis) ==
    MethodObject(methodAnalysis.class_name, methodAnalysis.name,
                 descriptor_to_androguard_format(methodAnalysis.descriptor).ret,
                 None, methodAnalysis)

\* all_methods of an APK: methods[j] for every j of every class
apk_all_methods(analysis) ==
    UNION { { convert_to_method_object(analysis[i].methods[j]) :
                j \in DOMAIN analysis[i].methods } : i \in DOMAIN analysis }

\* custom_methods of an APK: the methods of all_methods not flagged external
apk_custom_methods(analysis) ==
    { method \in apk_all_methods(analysis) : ~method.cache.external }

\* the process was ended by a signal
Killed(signal) == [killed |-> signal]

IsKilled(v) == "killed" \in DOMAIN v

\* readable memory that holds no method record, read as a
\* hdvmmethodanalysis_t: the flag reads as set or not, and decode is what
\* methodAnalysis.class_name.decode() does, class_name being the first
\* field that _convert_to_method_object reads
MemoryReadAsRecord(external, decode) == [external |-> external, decode |-> decode]

\* what .decode() does on a char pointer that is no string of a record: on
\* a null pointer, which ctypes hands out as None, it raises
\* AttributeError; on bytes that are no UTF-8 it raises UnicodeDecodeError;
\* on an address outside the memory of the process it ends the process
DecodeFailures == {Raised("AttributeError"), Raised("UnicodeDecodeError"), Killed("SIGSEGV")}

GarbageRecords ==
    {MemoryReadAsRecord(external, decode) : external \in BOOLEAN, decode \in DecodeFailures}

\* what an element of a ctypes array of pointers can be: a null pointer, a
\* pointer to a method record, a pointer to readable memory that holds no
\* record, or a word that is the address of no memory
NullPointer == [pointer |-> "NULL"]

WildPointer == [pointer |-> "wild"]

PointerTo(methodAnalysis) == [pointer |-> "record", contents |-> methodAnalysis]

Pointers ==
    {NullPointer, WildPointer}
        \cup {PointerTo(record) : record \in ShurikenRecords \cup GarbageRecords}

\* classAnalysis.methods[i] in the loops over a Dex file, i being the id of
\* the class (from 0): an element of the array while i is below
\* n_of_methods, otherwise whatever word lies behind the array
dex_methods_read(class, i) ==
    IF i < Len(class.methods)
    THEN {PointerTo(class.methods[i + 1])}
    ELSE Pointers

\* the classes of a Dex file whose inner loop runs at least once
dex_classes_read(analysis) == {i \in DOMAIN analysis : Len(analysis[i].methods) > 0}

\* how the body of the inner loop ends on a pointer when it does not reach
\* methods.add, keep being the records that the condition of the loop lets
\* through: .contents of a null pointer raises ValueError, the first read
\* of a field through a pointer to no memory ends the process with SIGSEGV,
\* and memory that holds no record fails in _convert_to_method_object when
\* the condition lets it through
dex_methods_failure(pointer, keep) ==
    IF pointer = NullPointer THEN Some(Raised("ValueError"))
    ELSE IF pointer = WildPointer THEN Some(Killed("SIGSEGV"))
    ELSE IF pointer.contents \in GarbageRecords /\ pointer.contents \in keep
    THEN Some(pointer.contents.decode)
    ELSE None

\* the loops of all_methods and custom_methods over a Dex file: the first
\* class in the order of the ids whose pointer makes the body fail decides;
\* when none does, the records that the condition lets through are added
dex_methods(analysis, read, keep) ==
    LET broken == {i \in dex_classes_read(analysis) :
                      dex_methods_failure(read[i], keep) # None}
    IN IF broken # {}
       THEN dex_methods_failure(read[SetMin(broken)], keep)[1]
       ELSE Ret({ convert_to_method_object(read[i].contents) :
                    i \in {c \in dex_classes_read(analysis) : read[c].contents \in keep} })

\* all_methods adds every record it reads
dex_all_methods_keep == ShurikenRecords \cup GarbageRecords

\* custom_methods adds the records whose flag external reads as set
dex_custom_methods_keep ==
    {methodAnalysis \in ShurikenRecords \cup GarbageRecords : methodAnalysis.external}

InitShuriken ==
    /\ input \in ShurikenInputs
    /\ output = Pending
    /\ phase = "called"
    /\ method_set = {}
    /\ NewFacade

shuriken_all_methods ==
    /\ phase = "called"
    /\ input.op = "all_methods"
    /\ \/ /\ input.ret_type = "APK"
          /\ output' = Ret(apk_all_methods(input.analysis))
       \/ /\ input.ret_type = "DEX"
          /\ \E read \in [dex_classes_read(input.analysis) -> Pointers] :
                /\ \A i \in DOMAIN read : read[i] \in dex_methods_read(input.analysis[i], i - 1)
                /\ output' = dex_methods(input.analysis, read, dex_all_methods_keep)
    /\ phase' = IF IsKilled(output') THEN "killed" ELSE "returned"
    /\ UNCHANGED <<input, method_set, facadeVars>>

shuriken_custom_methods ==
    /\ phase = "called"
    /\ input.op = "custom_methods"
    /\ \/ /\ input.ret_type = "APK"
          /\ output' = Ret(apk_custom_methods(input.analysis))
       \/ /\ input.ret_type = "DEX"
          /\ \E read \in [dex_classes_read(input.analysis) -> Pointers] :
                /\ \A i \in DOMAIN read : read[i] \in dex_methods_read(input.analysis[i], i - 1)
                /\ output' = dex_methods(input.analysis, read, dex_custom_methods_keep)
    /\ phase' = IF IsKilled(output') THEN "killed" ELSE "returned"
    /\ UNCHANGED <<input, method_set, facadeVars>>

NextShuriken == shuriken_all_methods \/ shuriken_custom_methods

SpecShuriken == InitShuriken /\ [][NextShuriken]_vars

\* the signatures of the methods of the analysed classes
AnalysedSignatures(analysis) ==
    UNION { { <<analysis[i].class_name, analysis[i].methods[j].name,
                descriptor_to_androguard_format(analysis[i].methods[j].descriptor).ret,
                analysis[i].methods[j].external>> :
                j \in DOMAIN analysis[i].methods } : i \in DOMAIN analysis }

Signature(analysed) == <<analysed[1], analysed[2], analysed[3]>>

\* C29: for a Dex file as for an APK, all_methods returns the signatures of
\* every method of every analysed class and custom_methods exactly those of
\* the methods that are not flagged external.
C29_SameContractForDexAndApk ==
    phase = "returned" /\ input.op \in {"all_methods", "custom_methods"}
    => /\ ~IsRaised(output)
       /\ input.op = "all_methods"
             => {MethodObject_key(method) : method \in output.ret}
                   = {Signature(analysed) : analysed \in AnalysedSignatures(input.analysis)}
       /\ input.op = "custom_methods"
             => {MethodObject_key(method) : method \in output.ret}
                   = {Signature(analysed) :
                        analysed \in {a \in AnalysedSignatures(input.analysis) : ~a[4]}}

\* the same for APK inputs only
C29_ApkContract == input.ret_type = "APK" => C29_SameContractForDexAndApk


---------------------------------------------------------------------------
(* find_method and the memoized tables                                     *)

\* the table of a Dex file before a step: the memoized one, or the one its
\* build returns during the step
TableBefore(dexindex) ==
    IF dexindex \in DOMAIN methods_classified_cache
    THEN methods_classified_cache[dexindex]
    ELSE built_tables'[dexindex]

\* C30: find_method is a pure query with respect to the memoized tables:
\* after a call, also one for a class that no Dex file contains, the table
\* of every Dex file has the class keys and the buckets it had before.
C30_FindMethodLeavesTablesAlone ==
    [][(input'.op = "find_method" /\ calls' # calls)
         => \A dexindex \in DOMAIN methods_classified_cache' :
               /\ DOMAIN methods_classified_cache'[dexindex] = DOMAIN TableBefore(dexindex)
               /\ \A class_name \in DOMAIN TableBefore(dexindex) :
                     methods_classified_cache'[dexindex][class_name]
                        = TableBefore(dexindex)[class_name]]_vars

\* the same for the classes that every Dex file searched holds a key for
C30_PresentClassLeavesTablesAlone ==
    [][(/\ input'.op = "find_method"
        /\ calls' # calls
        /\ \A dexindex \in DOMAIN methods_classified_cache' :
              input'.class_name \in DOMAIN TableBefore(dexindex))
         => \A dexindex \in DOMAIN methods_classified_cache' :
               methods_classified_cache'[dexindex] = TableBefore(dexindex)]_vars

=============================================================================
